---------------------------- MODULE Spec2Model ----------------------------
(***************************************************************************)
(* Model of the in-process streaming pipeline of pkg/stream:               *)
(* Pipeline.Run (pipeline.go), the Map and Filter operators (pipeline.go)  *)
(* and the sources of pkg/stream/source: the channel adapter (channel.go), *)
(* the timer source (CronSource) and the HTTP poll source (http.go).       *)
(*                                                                         *)
(* Every goroutine is a process with a program counter.  A Go channel is   *)
(* a record [buf, closed, fault]; a select statement is one step that      *)
(* takes any one of its ready cases (Go chooses among ready cases          *)
(* pseudo-randomly).  A send on a closed channel or a second close would   *)
(* panic in Go; the model records it in the channel's fault field.         *)
(***************************************************************************)
EXTENDS Integers, Sequences, FiniteSets, TLC

(***************************************************************************)
(* Bounds of the model.                                                    *)
(***************************************************************************)
MaxFeed == 2            \* values the feeder sends on the feed
FeedChanCap == 1        \* capacity of the feed handed to NewChannel
MaxBurst == 101         \* values sent on the feed in a burst (BurstSpec)
MaxTicks == 1           \* ticks a ticker delivers to its producer
MaxDeps == 2            \* dependencies of one task
MaxTemplates == 2       \* templates added to one Builder
MaxStrLen == 2          \* bytes of a string value
MaxWrites == 2          \* calls of Write on one HTTPSink
MaxErrors == 12         \* values fed to a sink whose Write fails (ErrorSpec)
MaxStall == 113         \* values fed one at a time to a stalling pipeline (StallSpec)
MaxCronBurst == 12      \* ticks delivered to a timer source in a burst (CronBurstSpec)
MaxWatchTicks == 3      \* ticks the ticker of WatchWorkflow delivers
MaxRuns == 2            \* calls of Run on one pipeline (RerunSpec)

Times == {1, 2}         \* values of time.Now().Unix()

Values == {1, 2}        \* payloads of type T

\* the operator chains that are built (every prefix of a chain is one too);
\* the timer source is run with at most one operator, the HTTP source without
Shapes == {<<>>, <<"filter">>, <<"map">>, <<"filter", "map">>}
ShapesOf(kind) ==
    IF kind = "channel" THEN Shapes
    ELSE IF kind = "cron" THEN {s \in Shapes : Len(s) <= 1}
    ELSE {<<>>}
MaxOps == CHOOSE n \in {Len(s) : s \in Shapes} : \A s \in Shapes : Len(s) <= n

\* what one GET of the HTTP source meets: err is "request" when the request cannot be
\* built, "transport" when client.Do fails; otherwise a response arrives with a status
\* and a body that is read and parsed ("ok"), fails to be read, or is rejected by the
\* parser
Response(err, status, body) == [err |-> err, status |-> status, body |-> body]

Statuses == {200, 201, 404}

Bodies == {"ok", "unreadable", "unparsable"}

Responses ==
    {Response("request", 0, "none"), Response("transport", 0, "none")}
    \cup {Response("none", st, b) : st \in Statuses, b \in Bodies}

\* an endpoint that is either unreachable or answers 200 with a good body
BasicResponses == {Response("transport", 0, "none"), Response("none", 200, "ok")}

\* the client of an HTTP source: the one NewHTTP makes, whose transport fails a request
\* made with a context that is done, or one set with WithHTTPClient whose transport
\* answers without consulting the request's context
Clients == {"default", "custom"}

\* the sources handed to New; interval is the period of the ticker (not positive: 0).
\* The HTTP source is run with a positive interval.
Sources ==
    {[kind |-> "channel", interval |-> 0]}
    \cup {[kind |-> "cron", interval |-> i] : i \in {0, 1}}
    \cup {[kind |-> "http", interval |-> 1, client |-> c, server |-> BasicResponses] :
              c \in Clients}

\* the interval-driven sources with every sign of the interval (StreamSpec)
IntervalSources ==
    {[kind |-> "cron", interval |-> i] : i \in {-1, 0, 1}}
    \cup {[kind |-> "http", interval |-> i, client |-> c, server |-> BasicResponses] :
              i \in {-1, 0, 1}, c \in Clients}

\* the HTTP sources whose endpoint gives every kind of response (PollSpec)
PollSources ==
    {[kind |-> "http", interval |-> 1, client |-> c, server |-> Responses] : c \in Clients}

URL == "url"            \* the url of the HTTP source

(***************************************************************************)
(* Program constants.                                                      *)
(***************************************************************************)
DefaultBufferCap == 100     \* New: bufferCap
ErrChanCap       == 10      \* New: errChan
OperatorChanCap  == 100     \* MapOperator.Process / FilterOperator.Process: out
SourceChanCap    == 100     \* ChannelSource.Stream: out
CronChanCap      == 10      \* NewCron: out
HTTPChanCap      == 10      \* HTTPSource.Stream: h.ch
StatusOK         == 200     \* http.StatusOK

BufferSizes == {1}          \* sizes passed to WithBufferSize

CancelReasons == {"context canceled"}    \* ctx.Err() once the context is done

Funcs == [Values -> Values]     \* the functions handed to Map
Preds == [Values -> BOOLEAN]    \* the predicates handed to Filter

VARIABLES
    \* Pipeline fields
    source,         \* p.source: [kind: "channel" / "cron" / "http", interval]
    operators,      \* p.operators: sequence of [kind: "map" / "filter", fn]
    sink,           \* p.sink: "nil" or "set"
    bufferCap,      \* p.bufferCap
    errChan,        \* p.errChan
    \* context
    ctxErr,         \* ctx.Err(): "nil" until the context is cancelled
    \* feed of the channel source (c.in) and what was sent on it
    feed,
    fed,
    \* channels of the chain: chans[0] is the source's out, chans[i] operator i's out
    chans,
    \* source producer goroutine; ticks counts the ticks it has taken from its ticker
    srcPc, srcMsg, ticks,
    polls,          \* HTTP source: the responses its GETs have received, in order
    observed,       \* the producer has taken a <-ctx.Done() case
    \* operator goroutines
    opPc, opMsg,
    \* consumer goroutine
    conPc, conMsg,
    \* completion waiter goroutine (done is closed iff waitPc = "done")
    waitPc,
    \* driver: Run
    drvPc, result,
    runs,           \* calls of Run on this pipeline so far
    \* observations
    written,        \* messages passed to Sink.Write, in call order
    failed,         \* indices (in written) of the Writes that returned an error
    closes,         \* Close invocations in call order: "sink" / "source"
    emitted,        \* values the source producer has sent on its out channel
    sent,           \* sent[i]: the messages sent on chans[i], in order
    stalled,        \* some producer was blocked in a send on a full channel
    sigOrder,       \* the terminal signals that occurred before the driver's select
                    \* took a case, in order of occurrence: "cancel", "error" (an
                    \* error was queued on errChan), "done" (the consumer loop ended)
    \* an HTTPSink: the calls of Write made on it, each with what the call met and
    \* what it returned
    httpSink,
    \* a DependencyGraph: g.tasks (task name -> its Dependencies) and what Validate and
    \* TopologicalSort returned when called on it
    graph,
    \* a workflow Builder: its fields name, namespace, entrypoint, templates, and what
    \* Build returned when called on it
    builder,
    \* a value of the declared type T on its way through the HTTP sink's default
    \* marshaler and the HTTP source's default parser
    codec,
    \* a call of HTTPClient.WatchWorkflow: its polling goroutine, its context, its event
    \* channel and the caller that receives from it
    watch

cfgVars  == <<source, operators, sink, bufferCap>>
feedVars == <<feed, fed>>
srcVars  == <<srcPc, srcMsg, ticks, polls, observed>>
opVars   == <<opPc, opMsg>>
conVars  == <<conPc, conMsg>>
drvVars  == <<drvPc, result, runs>>
obsVars  == <<written, failed, closes, emitted, sent>>
libVars  == <<httpSink, graph, builder, codec, watch>>
vars == <<source, operators, sink, bufferCap, errChan, ctxErr, feed, fed,
          chans, srcPc, srcMsg, ticks, polls, observed, opPc, opMsg, conPc, conMsg, waitPc,
          drvPc, result, runs, written, failed, closes, emitted, sent, stalled, sigOrder,
          httpSink, graph, builder, codec, watch>>

(***************************************************************************)
(* Channels.                                                               *)
(***************************************************************************)
NewChan == [buf |-> <<>>, closed |-> FALSE, fault |-> "none"]

ChanSend(c, m) ==
    IF c.closed THEN [c EXCEPT !.fault = "send on closed channel"]
    ELSE [c EXCEPT !.buf = Append(@, m)]

ChanClose(c) ==
    IF c.closed THEN [c EXCEPT !.fault = "close of closed channel"]
    ELSE [c EXCEPT !.closed = TRUE]

ChanRecv(c) == [c EXCEPT !.buf = Tail(@)]

\* a send on a closed channel does not block: it panics
CanSend(c, cap) == c.closed \/ Len(c.buf) < cap
CanRecv(c) == c.buf # <<>>
Drained(c) == c.buf = <<>> /\ c.closed

(***************************************************************************)
(* Messages and errors.                                                    *)
(***************************************************************************)
\* a map[string]string: the nil map, or a map made with its key/value pairs
NilMap == [nil |-> TRUE, kv |-> {}]
MakeMap(kv) == [nil |-> FALSE, kv |-> kv]

\* the zero Message (no message is held)
NoMsg == [Key |-> "", Value |-> 0, Timestamp |-> 0, Metadata |-> NilMap]

\* faulty variant of ChannelMessage: the metadata map is not made
ChannelMessage_NilMetadata(val) ==
    [Key |-> "", Value |-> val, Timestamp |-> 0, Metadata |-> NilMap]

\* channel.go: stream.Message[T]{Value: val, Metadata: make(map[string]string)}
ChannelMessage(val) ==
    [Key |-> "", Value |-> val, Timestamp |-> 0, Metadata |-> MakeMap({})]

\* CronSource.Stream: Key: fmt.Sprintf("cron-%d", time.Now().Unix()), Value: c.generator(),
\* Timestamp: time.Now().Unix(); t1 and t2 are the results of the two calls of time.Now
CronMessage(t1, val, t2) ==
    [Key |-> "cron-" \o ToString(t1), Value |-> val, Timestamp |-> t2,
     Metadata |-> MakeMap({})]

\* HTTPSource.poll: Key: h.url, Metadata: source, url, status
HTTPMessage(val, status, t) ==
    [Key |-> URL, Value |-> val, Timestamp |-> t,
     Metadata |-> MakeMap({<<"source", "http">>, <<"url", URL>>,
                           <<"status", ToString(status)>>})]

Err(kind, k) == [kind |-> kind, k |-> k]
NoResult == Err("running", 0)
Nil      == Err("nil", 0)
CtxErr   == Err(ctxErr, 0)                  \* ctx.Err()
SinkWriteErr(k) == Err("sink write", k)     \* fmt.Errorf("sink write: %w", err)

cancelled == ctxErr # "nil"                 \* ctx.Done() is closed

Signal(s) ==
    IF drvPc \in {"closeSink", "closeSource", "returned"}
       \/ \E i \in 1..Len(sigOrder) : sigOrder[i] = s
    THEN sigOrder
    ELSE Append(sigOrder, s)

\* New(name, source): a pipeline without operators and without a sink
Start ==
    /\ operators = <<>>
    /\ sink = "nil"
    /\ bufferCap = DefaultBufferCap
    /\ errChan = <<>>
    /\ ctxErr = "nil"
    /\ feed = NewChan
    /\ fed = <<>>
    /\ chans = [i \in 0..MaxOps |-> NewChan]
    /\ srcPc = "idle" /\ srcMsg = NoMsg /\ ticks = 0 /\ polls = <<>> /\ observed = FALSE
    /\ opPc = [i \in 1..MaxOps |-> "idle"]
    /\ opMsg = [i \in 1..MaxOps |-> NoMsg]
    /\ conPc = "idle" /\ conMsg = NoMsg
    /\ waitPc = "idle"
    /\ drvPc = "config" /\ result = NoResult /\ runs = 0
    /\ written = <<>> /\ failed = {} /\ closes = <<>> /\ emitted = <<>>
    /\ sent = [i \in 0..MaxOps |-> <<>>]
    /\ stalled = FALSE
    /\ sigOrder = <<>>

\* the objects of the packages around the pipeline, not in use
NoHTTPSink == [writes |-> <<>>]

NotCalled == [err |-> Err("not called", 0)]

NoGraph == [tasks |-> <<>>, validated |-> NotCalled, sorted |-> NotCalled]

NoBuilder ==
    [name |-> "", namespace |-> "", entrypoint |-> "", templates |-> <<>>, built |-> NotCalled]

NoCodec == [stage |-> "unused"]

NoWatch == [pc |-> "unused"]

Unused ==
    httpSink = NoHTTPSink /\ graph = NoGraph /\ builder = NoBuilder /\ codec = NoCodec /\ watch = NoWatch

Init == source \in Sources /\ Start /\ Unused

(***************************************************************************)
(* Configuration: the fluent builder methods, called before Run.           *)
(***************************************************************************)
\* the chain extended by an operator of this kind is one of Shapes
Buildable(kind) ==
    \E s \in ShapesOf(source.kind) :
        /\ Len(s) > Len(operators)
        /\ s[Len(operators) + 1] = kind
        /\ \A i \in 1..Len(operators) : s[i] = operators[i].kind

\* pipeline.go:33 WithBufferSize
WithBufferSize(size) ==
    /\ drvPc = "config"
    /\ bufferCap' = size
    /\ UNCHANGED <<libVars, source, operators, sink, errChan, ctxErr, feedVars, chans,
                   srcVars, opVars, conVars, waitPc, drvVars, obsVars, sigOrder, stalled>>

\* pipeline.go:40 Map
Map(fn) ==
    /\ drvPc = "config"
    /\ Buildable("map")
    /\ operators' = Append(operators, [kind |-> "map", fn |-> fn])
    /\ UNCHANGED <<libVars, source, sink, bufferCap, errChan, ctxErr, feedVars, chans,
                   srcVars, opVars, conVars, waitPc, drvVars, obsVars, sigOrder, stalled>>

\* pipeline.go:46 Filter
Filter(fn) ==
    /\ drvPc = "config"
    /\ Buildable("filter")
    /\ operators' = Append(operators, [kind |-> "filter", fn |-> fn])
    /\ UNCHANGED <<libVars, source, sink, bufferCap, errChan, ctxErr, feedVars, chans,
                   srcVars, opVars, conVars, waitPc, drvVars, obsVars, sigOrder, stalled>>

\* pipeline.go:52 To
To ==
    /\ drvPc = "config"
    /\ sink' = "set"
    /\ UNCHANGED <<libVars, source, operators, bufferCap, errChan, ctxErr, feedVars, chans,
                   srcVars, opVars, conVars, waitPc, drvVars, obsVars, sigOrder, stalled>>

(***************************************************************************)
(* The environment: the owner of the feed and of the context.              *)
(***************************************************************************)
\* in <- v
FeedSend(v) ==
    /\ source.kind = "channel"
    /\ ~feed.closed
    /\ Len(feed.buf) < FeedChanCap
    /\ feed' = ChanSend(feed, v)
    /\ fed' = Append(fed, v)
    /\ UNCHANGED <<libVars, cfgVars, errChan, ctxErr, chans, srcVars, opVars, conVars, waitPc,
                   drvVars, obsVars, sigOrder, stalled>>

Feed(v) ==
    /\ Len(fed) < MaxFeed
    /\ FeedSend(v)

\* close(in)
CloseFeed ==
    /\ source.kind = "channel"
    /\ ~feed.closed
    /\ feed' = ChanClose(feed)
    /\ UNCHANGED <<libVars, cfgVars, errChan, ctxErr, fed, chans, srcVars, opVars, conVars, waitPc,
                   drvVars, obsVars, sigOrder, stalled>>

\* cancel() or the deadline of the context
Cancel(reason) ==
    /\ ctxErr = "nil"
    /\ drvPc # "crashed"
    /\ ctxErr' = reason
    /\ sigOrder' = Signal("cancel")
    /\ UNCHANGED <<libVars, cfgVars, errChan, feedVars, chans, srcVars, opVars, conVars, waitPc,
                   drvVars, obsVars, stalled>>

\* capacity of chans[i]: the make(chan ...) of channel.go:22, NewCron, http.go:53
\* and pipeline.go:158, 187
ChanCap(i) ==
    IF i > 0 THEN OperatorChanCap
    ELSE IF source.kind = "channel" THEN SourceChanCap
    ELSE IF source.kind = "cron" THEN CronChanCap
    ELSE HTTPChanCap

\* the producer of chans[i] is blocked in its send because the channel is full
Blocked(i) ==
    /\ (IF i = 0 THEN srcPc ELSE opPc[i]) = "send"
    /\ ~CanSend(chans[i], ChanCap(i))

(***************************************************************************)
(* The producer goroutine of the source; its out channel is chans[0].      *)
(***************************************************************************)
\* defer close(out); return
SourceReturn ==
    /\ chans' = [chans EXCEPT ![0] = ChanClose(@)]
    /\ srcPc' = "done"
    /\ srcMsg' = NoMsg

\* out <- msg
SourceEmit ==
    /\ chans' = [chans EXCEPT ![0] = ChanSend(@, srcMsg)]
    /\ emitted' = Append(emitted, srcMsg.Value)
    /\ sent' = [sent EXCEPT ![0] = Append(@, srcMsg)]
    /\ srcMsg' = NoMsg

(***************************************************************************)
(* ChannelSource.Stream (channel.go:24-46).                                *)
(***************************************************************************)
\* faulty variant of ChannelSelect: the receive from the feed is not raced against ctx.Done()
ChannelSelect_NoCancelCase ==
    /\ source.kind = "channel"
    /\ srcPc = "select"
    /\ \/ /\ CanRecv(feed)
          /\ feed' = ChanRecv(feed)
          /\ srcMsg' = ChannelMessage(Head(feed.buf))
          /\ srcPc' = "send"
          /\ UNCHANGED observed
          /\ UNCHANGED chans
       \/ /\ Drained(feed)
          /\ SourceReturn
          /\ UNCHANGED observed
          /\ UNCHANGED feed
    /\ UNCHANGED <<libVars, cfgVars, errChan, ctxErr, fed, ticks, polls, opVars, conVars, waitPc, drvVars,
                   obsVars, sigOrder, stalled>>

\* faulty variant of ChannelSelect: ok is not tested, and the zero value received from the
\* closed feed is wrapped and sent
ChannelSelect_NoOkCheck ==
    /\ source.kind = "channel"
    /\ srcPc = "select"
    /\ \/ /\ cancelled
          /\ SourceReturn
          /\ observed' = TRUE
          /\ UNCHANGED feed
       \/ /\ CanRecv(feed)
          /\ feed' = ChanRecv(feed)
          /\ srcMsg' = ChannelMessage(Head(feed.buf))
          /\ srcPc' = "send"
          /\ UNCHANGED observed
          /\ UNCHANGED chans
       \/ /\ Drained(feed)
          /\ srcMsg' = ChannelMessage(0)
          /\ srcPc' = "send"
          /\ UNCHANGED observed
          /\ UNCHANGED <<feed, chans>>
    /\ UNCHANGED <<libVars, cfgVars, errChan, ctxErr, fed, ticks, polls, opVars, conVars, waitPc, drvVars,
                   obsVars, sigOrder, stalled>>

\* select { case <-ctx.Done(): return; case val, ok := <-c.in: ... }
ChannelSelect ==
    /\ source.kind = "channel"
    /\ srcPc = "select"
    /\ \/ /\ cancelled
          /\ SourceReturn
          /\ observed' = TRUE
          /\ UNCHANGED feed
       \/ /\ CanRecv(feed)
          /\ feed' = ChanRecv(feed)
          /\ srcMsg' = ChannelMessage(Head(feed.buf))
          /\ srcPc' = "send"
          /\ UNCHANGED observed
          /\ UNCHANGED chans
       \/ /\ Drained(feed)
          /\ SourceReturn
          /\ UNCHANGED observed
          /\ UNCHANGED feed
    /\ UNCHANGED <<libVars, cfgVars, errChan, ctxErr, fed, ticks, polls, opVars, conVars, waitPc, drvVars,
                   obsVars, sigOrder, stalled>>

\* faulty variant of ChannelSend: a non-blocking send that honours the configured
\* capacity and drops the message when the channel already holds bufferCap
ChannelSend_DropWhenFull ==
    /\ source.kind = "channel"
    /\ srcPc = "send"
    /\ IF Len(chans[0].buf) < bufferCap
       THEN SourceEmit
       ELSE /\ srcMsg' = NoMsg
            /\ UNCHANGED <<chans, emitted, sent>>
    /\ srcPc' = "select"
    /\ UNCHANGED observed
    /\ UNCHANGED <<libVars, cfgVars, errChan, ctxErr, feedVars, ticks, polls, opVars, conVars, waitPc,
                   drvVars, written, failed, closes, sigOrder, stalled>>

\* select { case out <- msg: ; case <-ctx.Done(): return }
ChannelSend ==
    /\ source.kind = "channel"
    /\ srcPc = "send"
    /\ \/ /\ CanSend(chans[0], SourceChanCap)
          /\ SourceEmit
          /\ srcPc' = "select"
          /\ UNCHANGED observed
       \/ /\ cancelled
          /\ SourceReturn
          /\ observed' = TRUE
          /\ UNCHANGED <<emitted, sent>>
    /\ UNCHANGED <<libVars, cfgVars, errChan, ctxErr, feedVars, ticks, polls, opVars, conVars, waitPc,
                   drvVars, written, failed, closes, sigOrder, stalled>>

(***************************************************************************)
(* CronSource.Stream: the producer goroutine.  A tick is taken from the    *)
(* ticker when the producer selects it; the ticker delivers MaxTicks.      *)
(***************************************************************************)
\* select { case <-ctx.Done(): return; case <-ticker.C: msg := stream.Message[T]{...} }
\* limit: the ticks the ticker delivers; times: the values time.Now().Unix() takes;
\* vals: the values c.generator() returns on this tick
CronSelectWith(limit, times, vals) ==
    /\ source.kind = "cron"
    /\ srcPc = "select"
    /\ \/ /\ cancelled
          /\ SourceReturn
          /\ observed' = TRUE
          /\ UNCHANGED ticks
       \/ /\ ticks < limit
          /\ ticks' = ticks + 1
          /\ \E t1 \in times, t2 \in times, val \in vals :
                /\ t1 <= t2
                /\ srcMsg' = CronMessage(t1, val, t2)
          /\ srcPc' = "send"
          /\ UNCHANGED observed
          /\ UNCHANGED chans
    /\ UNCHANGED <<libVars, cfgVars, errChan, ctxErr, feedVars, polls, opVars, conVars, waitPc,
                   drvVars, obsVars, sigOrder, stalled>>

CronSelect == CronSelectWith(MaxTicks, Times, Values)

\* the ticker delivers a burst of ticks, the generator counts its calls: 1, 2, ...
CronBurstSelect == CronSelectWith(MaxCronBurst, {1}, {ticks + 1})

\* faulty variant of CronSend: a message is dropped when the channel is full
CronSend_DropWhenFull ==
    /\ source.kind = "cron"
    /\ srcPc = "send"
    /\ IF Len(chans[0].buf) < CronChanCap \/ chans[0].closed
       THEN /\ SourceEmit
            /\ srcPc' = "select"
       ELSE /\ srcPc' = "select"
            /\ srcMsg' = NoMsg
            /\ UNCHANGED <<chans, emitted, sent>>
    /\ UNCHANGED observed
    /\ UNCHANGED <<libVars, cfgVars, errChan, ctxErr, feedVars, ticks, polls, opVars, conVars, waitPc,
                   drvVars, written, failed, closes, sigOrder, stalled>>

\* select { case c.out <- msg: ; case <-ctx.Done(): return }
CronSend ==
    /\ source.kind = "cron"
    /\ srcPc = "send"
    /\ \/ /\ CanSend(chans[0], CronChanCap)
          /\ SourceEmit
          /\ srcPc' = "select"
          /\ UNCHANGED observed
       \/ /\ cancelled
          /\ SourceReturn
          /\ observed' = TRUE
          /\ UNCHANGED <<emitted, sent>>
    /\ UNCHANGED <<libVars, cfgVars, errChan, ctxErr, feedVars, ticks, polls, opVars, conVars, waitPc,
                   drvVars, written, failed, closes, sigOrder, stalled>>

(***************************************************************************)
(* HTTPSource.Stream: the producer goroutine, and HTTPSource.poll.         *)
(***************************************************************************)
\* faulty variant of HTTPNewTicker: the producer waits for the first tick before it polls
HTTPNewTicker_NoFirstPoll ==
    /\ source.kind = "http"
    /\ srcPc = "ticker"
    /\ IF source.interval <= 0
       THEN /\ chans' = [chans EXCEPT ![0] = ChanClose(@)]
            /\ srcPc' = "panicked"
            /\ opPc' = [i \in 1..MaxOps |-> "crashed"]
            /\ conPc' = "crashed"
            /\ waitPc' = "crashed"
            /\ drvPc' = "crashed"
       ELSE /\ srcPc' = "select"
            /\ UNCHANGED <<chans, opPc, conPc, waitPc, drvPc>>
    /\ UNCHANGED <<libVars, cfgVars, errChan, ctxErr, feedVars, srcMsg, ticks, polls, observed, opMsg, conMsg,
                   result, runs, obsVars, sigOrder, stalled>>

\* http.go:55-62: defer close(h.ch); ticker := time.NewTicker(h.interval), which panics
\* when the interval is not positive: the deferred close runs and the program ends
HTTPNewTicker ==
    /\ source.kind = "http"
    /\ srcPc = "ticker"
    /\ IF source.interval <= 0
       THEN /\ chans' = [chans EXCEPT ![0] = ChanClose(@)]
            /\ srcPc' = "panicked"
            /\ opPc' = [i \in 1..MaxOps |-> "crashed"]
            /\ conPc' = "crashed"
            /\ waitPc' = "crashed"
            /\ drvPc' = "crashed"
       ELSE /\ srcPc' = "poll"
            /\ UNCHANGED <<chans, opPc, conPc, waitPc, drvPc>>
    /\ UNCHANGED <<libVars, cfgVars, errChan, ctxErr, feedVars, srcMsg, ticks, polls, observed, opMsg, conMsg,
                   result, runs, obsVars, sigOrder, stalled>>

\* faulty variant of PollEmits: the status of the response is not looked at
PollEmits_NoStatusCheck(r) ==
    /\ r.err # "request"
    /\ r.err # "transport"
    /\ r.body # "unreadable"
    /\ r.body # "unparsable"

\* poll (http.go:78-101): the early returns before the message is built
PollEmits(r) ==
    /\ r.err # "request"            \* http.NewRequestWithContext: err != nil, return
    /\ r.err # "transport"          \* h.client.Do: err != nil, return
    /\ r.status = StatusOK          \* resp.StatusCode != http.StatusOK, return
    /\ r.body # "unreadable"        \* io.ReadAll: err != nil, return
    /\ r.body # "unparsable"        \* h.parser: err != nil, return

\* poll (http.go:77-112): one GET; the endpoint gives one of its responses, and with the
\* default client a request made with a context that is done fails in client.Do
HTTPPoll ==
    /\ source.kind = "http"
    /\ srcPc = "poll"
    /\ \E r \in source.server :
          /\ (cancelled /\ source.client = "default") => r.err # "none"
          /\ polls' = Append(polls, r)
          /\ IF PollEmits(r)
             THEN /\ \E val \in Values, t \in Times :
                        srcMsg' = HTTPMessage(val, r.status, t)
                  /\ srcPc' = "send"
             ELSE /\ srcPc' = "select"
                  /\ UNCHANGED srcMsg
    /\ UNCHANGED <<libVars, cfgVars, errChan, ctxErr, feedVars, chans, ticks, observed, opVars, conVars,
                   waitPc, drvVars, obsVars, sigOrder, stalled>>

\* poll (http.go:114-117): select { case h.ch <- msg: ; case <-ctx.Done(): }
HTTPPollSend ==
    /\ source.kind = "http"
    /\ srcPc = "send"
    /\ \/ /\ CanSend(chans[0], HTTPChanCap)
          /\ SourceEmit
          /\ UNCHANGED observed
       \/ /\ cancelled
          /\ srcMsg' = NoMsg
          /\ observed' = TRUE
          /\ UNCHANGED <<chans, emitted, sent>>
    /\ srcPc' = "select"
    /\ UNCHANGED <<libVars, cfgVars, errChan, ctxErr, feedVars, ticks, polls, opVars, conVars, waitPc,
                   drvVars, written, failed, closes, sigOrder, stalled>>

\* http.go:64-71: select { case <-ctx.Done(): return; case <-ticker.C: h.poll(ctx) }
HTTPSelect ==
    /\ source.kind = "http"
    /\ srcPc = "select"
    /\ \/ /\ cancelled
          /\ SourceReturn
          /\ observed' = TRUE
          /\ UNCHANGED ticks
       \/ /\ ticks < MaxTicks
          /\ ticks' = ticks + 1
          /\ srcPc' = "poll"
          /\ UNCHANGED <<chans, srcMsg, observed>>
    /\ UNCHANGED <<libVars, cfgVars, errChan, ctxErr, feedVars, polls, opVars, conVars, waitPc,
                   drvVars, obsVars, sigOrder, stalled>>

(***************************************************************************)
(* MapOperator.Process and FilterOperator.Process: the forwarding          *)
(* goroutine of operator i reads chans[i-1] and writes chans[i].           *)
(***************************************************************************)
\* defer close(out); return
OperatorReturn(i) ==
    /\ chans' = [chans EXCEPT ![i] = ChanClose(@)]
    /\ opPc' = [opPc EXCEPT ![i] = "done"]
    /\ opMsg' = [opMsg EXCEPT ![i] = NoMsg]

\* faulty variant of MapApply: the result of fn is not stored in the message
MapApply_NotStored(fn, msg) == msg

\* faulty variant of MapApply: a new message is built that carries only the new value
MapApply_FreshMessage(fn, msg) ==
    [Key |-> "", Value |-> fn[msg.Value], Timestamp |-> 0, Metadata |-> NilMap]

\* msg.Value = m.fn(msg.Value)
MapApply(fn, msg) == [msg EXCEPT !.Value = fn[msg.Value]]

\* faulty variant of FilterPass: the messages that satisfy the predicate are the ones dropped
FilterPass_Inverted(fn, msg) == ~fn[msg.Value]

\* f.fn(msg.Value)
FilterPass(fn, msg) == fn[msg.Value]

\* pipeline.go:162-167
\* for msg := range in { select { case <-ctx.Done(): return; default: msg.Value = m.fn(msg.Value) ...
MapStep(i) ==
    /\ opPc[i] = "range"
    /\ operators[i].kind = "map"
    /\ \/ /\ CanRecv(chans[i-1])
          /\ IF cancelled
             THEN /\ chans' = [chans EXCEPT ![i-1] = ChanRecv(@), ![i] = ChanClose(@)]
                  /\ opPc' = [opPc EXCEPT ![i] = "done"]
                  /\ UNCHANGED opMsg
             ELSE /\ chans' = [chans EXCEPT ![i-1] = ChanRecv(@)]
                  /\ opMsg' = [opMsg EXCEPT ![i] = MapApply(operators[i].fn, Head(chans[i-1].buf))]
                  /\ opPc' = [opPc EXCEPT ![i] = "send"]
       \/ /\ Drained(chans[i-1])
          /\ OperatorReturn(i)
    /\ stalled' = (stalled \/ (CanRecv(chans[i-1]) /\ Blocked(i-1)))
    /\ UNCHANGED <<libVars, cfgVars, errChan, ctxErr, feedVars, srcVars, conVars, waitPc, drvVars,
                   obsVars, sigOrder>>

\* pipeline.go:191-196
\* for msg := range in { select { case <-ctx.Done(): return; default: if f.fn(msg.Value) { ...
FilterStep(i) ==
    /\ opPc[i] = "range"
    /\ operators[i].kind = "filter"
    /\ \/ /\ CanRecv(chans[i-1])
          /\ IF cancelled
             THEN /\ chans' = [chans EXCEPT ![i-1] = ChanRecv(@), ![i] = ChanClose(@)]
                  /\ opPc' = [opPc EXCEPT ![i] = "done"]
                  /\ UNCHANGED opMsg
             ELSE /\ chans' = [chans EXCEPT ![i-1] = ChanRecv(@)]
                  /\ IF FilterPass(operators[i].fn, Head(chans[i-1].buf))
                     THEN /\ opMsg' = [opMsg EXCEPT ![i] = Head(chans[i-1].buf)]
                          /\ opPc' = [opPc EXCEPT ![i] = "send"]
                     ELSE UNCHANGED opVars
       \/ /\ Drained(chans[i-1])
          /\ OperatorReturn(i)
    /\ stalled' = (stalled \/ (CanRecv(chans[i-1]) /\ Blocked(i-1)))
    /\ UNCHANGED <<libVars, cfgVars, errChan, ctxErr, feedVars, srcVars, conVars, waitPc, drvVars,
                   obsVars, sigOrder>>

\* faulty variant of OperatorSend: on cancellation the channel is closed but the loop goes on
OperatorSend_NoReturn(i) ==
    /\ opPc[i] = "send"
    /\ \/ /\ CanSend(chans[i], OperatorChanCap)
          /\ chans' = [chans EXCEPT ![i] = ChanSend(@, opMsg[i])]
          /\ sent' = [sent EXCEPT ![i] = Append(@, opMsg[i])]
       \/ /\ cancelled
          /\ chans' = [chans EXCEPT ![i] = ChanClose(@)]
          /\ UNCHANGED sent
    /\ opPc' = [opPc EXCEPT ![i] = "range"]
    /\ opMsg' = [opMsg EXCEPT ![i] = NoMsg]
    /\ UNCHANGED <<libVars, cfgVars, errChan, ctxErr, feedVars, srcVars, conVars, waitPc, drvVars,
                   written, failed, closes, emitted, sigOrder, stalled>>

\* faulty variant of OperatorSend: the message is sent twice
OperatorSend_Twice(i) ==
    /\ opPc[i] = "send"
    /\ \/ /\ CanSend(chans[i], OperatorChanCap)
          /\ chans' = [chans EXCEPT ![i] = ChanSend(ChanSend(@, opMsg[i]), opMsg[i])]
          /\ sent' = [sent EXCEPT ![i] = Append(Append(@, opMsg[i]), opMsg[i])]
          /\ opPc' = [opPc EXCEPT ![i] = "range"]
          /\ opMsg' = [opMsg EXCEPT ![i] = NoMsg]
       \/ /\ cancelled
          /\ OperatorReturn(i)
          /\ UNCHANGED sent
    /\ UNCHANGED <<libVars, cfgVars, errChan, ctxErr, feedVars, srcVars, conVars, waitPc, drvVars,
                   written, failed, closes, emitted, sigOrder, stalled>>

\* select { case out <- msg: ; case <-ctx.Done(): return }
OperatorSend(i) ==
    /\ opPc[i] = "send"
    /\ \/ /\ CanSend(chans[i], OperatorChanCap)
          /\ chans' = [chans EXCEPT ![i] = ChanSend(@, opMsg[i])]
          /\ sent' = [sent EXCEPT ![i] = Append(@, opMsg[i])]
          /\ opPc' = [opPc EXCEPT ![i] = "range"]
          /\ opMsg' = [opMsg EXCEPT ![i] = NoMsg]
       \/ /\ cancelled
          /\ OperatorReturn(i)
          /\ UNCHANGED sent
    /\ UNCHANGED <<libVars, cfgVars, errChan, ctxErr, feedVars, srcVars, conVars, waitPc, drvVars,
                   written, failed, closes, emitted, sigOrder, stalled>>

(***************************************************************************)
(* Pipeline.Run: the consumer goroutine (pipeline.go:87-98).               *)
(***************************************************************************)
\* current: the out channel of the last operator (the source's without operators)
current == Len(operators)

\* for msg := range current; at the end of the loop, defer wg.Done()
ConsumerRange ==
    /\ conPc = "range"
    /\ \/ /\ CanRecv(chans[current])
          /\ chans' = [chans EXCEPT ![current] = ChanRecv(@)]
          /\ conMsg' = Head(chans[current].buf)
          /\ conPc' = "write"
          /\ UNCHANGED sigOrder
       \/ /\ Drained(chans[current])
          /\ conPc' = "done"
          /\ sigOrder' = Signal("done")
          /\ UNCHANGED <<chans, conMsg>>
    /\ stalled' = (stalled \/ (CanRecv(chans[current]) /\ Blocked(current)))
    /\ UNCHANGED <<libVars, cfgVars, errChan, ctxErr, feedVars, srcVars, opVars, waitPc, drvVars,
                   obsVars>>

\* err := p.sink.Write(ctx, msg): the sink decides whether the write fails
ConsumerWrite(ok) ==
    /\ conPc = "write"
    /\ written' = Append(written, conMsg)
    /\ IF ok
       THEN /\ conPc' = "range"
            /\ conMsg' = NoMsg
            /\ UNCHANGED failed
       ELSE /\ conPc' = "forward"
            /\ failed' = failed \cup {Len(written')}
            /\ UNCHANGED conMsg
    /\ UNCHANGED <<libVars, cfgVars, errChan, ctxErr, feedVars, chans, srcVars, opVars, waitPc,
                   drvVars, closes, emitted, sent, sigOrder, stalled>>

\* faulty variant of ConsumerForward: the failed Write is tried again
ConsumerForward_Retry ==
    /\ conPc = "forward"
    /\ \/ /\ Len(errChan) < ErrChanCap
          /\ errChan' = Append(errChan, SinkWriteErr(Len(written)))
          /\ conPc' = "write"
          /\ sigOrder' = Signal("error")
          /\ UNCHANGED conMsg
       \/ /\ cancelled
          /\ conPc' = "done"
          /\ sigOrder' = Signal("done")
          /\ conMsg' = NoMsg
          /\ UNCHANGED errChan
    /\ UNCHANGED <<libVars, cfgVars, ctxErr, feedVars, chans, srcVars, opVars, waitPc, drvVars,
                   obsVars, stalled>>

\* select { case p.errChan <- fmt.Errorf("sink write: %w", err): ; case <-ctx.Done(): return }
ConsumerForward ==
    /\ conPc = "forward"
    /\ \/ /\ Len(errChan) < ErrChanCap
          /\ errChan' = Append(errChan, SinkWriteErr(Len(written)))
          /\ conPc' = "range"
          /\ sigOrder' = Signal("error")
       \/ /\ cancelled
          /\ conPc' = "done"
          /\ sigOrder' = Signal("done")
          /\ UNCHANGED errChan
    /\ conMsg' = NoMsg
    /\ UNCHANGED <<libVars, cfgVars, ctxErr, feedVars, chans, srcVars, opVars, waitPc, drvVars,
                   obsVars, stalled>>

(***************************************************************************)
(* Pipeline.Run: the completion waiter (pipeline.go:101-105).              *)
(***************************************************************************)
\* faulty variant of WaiterClose: done is closed without waiting for the consumer
WaiterClose_NoWait ==
    /\ waitPc = "wait"
    /\ waitPc' = "done"
    /\ UNCHANGED <<libVars, cfgVars, errChan, ctxErr, feedVars, chans, srcVars, opVars, conVars,
                   drvVars, obsVars, sigOrder, stalled>>

\* wg.Wait(); close(done)
WaiterClose ==
    /\ waitPc = "wait"
    /\ conPc = "done"
    /\ waitPc' = "done"
    /\ UNCHANGED <<libVars, cfgVars, errChan, ctxErr, feedVars, chans, srcVars, opVars, conVars,
                   drvVars, obsVars, sigOrder, stalled>>

doneClosed == waitPc = "done"

(***************************************************************************)
(* Pipeline.Run: the driver.                                               *)
(***************************************************************************)
\* Stream of the source: ChannelSource.Stream and HTTPSource.Stream make the out
\* channel, CronSource.Stream returns the channel made by NewCron; each starts
\* the producer, which HTTPSource's begins with its ticker and a poll
Stream ==
    /\ chans' = [chans EXCEPT ![0] = IF source.kind = "cron" THEN @ ELSE NewChan]
    /\ srcPc' = IF source.kind = "http" THEN "ticker" ELSE "select"

\* CronSource.Stream: if c.interval <= 0 { return nil, fmt.Errorf("interval must be positive") }
StreamFails == source.kind = "cron" /\ source.interval <= 0

\* faulty variant of RunStart: the source is started before the sink is checked
RunStart_StreamBeforeCheck ==
    /\ drvPc = "config"
    /\ IF StreamFails
       THEN /\ result' = Err("start source", 0)
            /\ drvPc' = "returned"
            /\ UNCHANGED <<chans, srcPc>>
       ELSE /\ Stream
            /\ IF sink = "nil"
               THEN /\ result' = Err("sink is required", 0)
                    /\ drvPc' = "returned"
               ELSE /\ drvPc' = "process"
                    /\ UNCHANGED result
    /\ runs' = runs + 1
    /\ UNCHANGED <<libVars, cfgVars, errChan, ctxErr, feedVars, srcMsg, ticks, polls, observed, opVars, conVars,
                   waitPc, obsVars, sigOrder, stalled>>

\* faulty variant of RunStart: the error of Stream is dropped and the run goes on
RunStart_IgnoreStreamError ==
    /\ drvPc = "config"
    /\ IF sink = "nil"
       THEN /\ result' = Err("sink is required", 0)
            /\ drvPc' = "returned"
            /\ UNCHANGED <<chans, srcPc>>
       ELSE IF StreamFails
       THEN /\ drvPc' = "process"
            /\ UNCHANGED <<result, chans, srcPc>>
       ELSE /\ Stream
            /\ drvPc' = "process"
            /\ UNCHANGED result
    /\ runs' = runs + 1
    /\ UNCHANGED <<libVars, cfgVars, errChan, ctxErr, feedVars, srcMsg, ticks, polls, observed, opVars, conVars,
                   waitPc, obsVars, sigOrder, stalled>>

\* pipeline.go:60-69: the sink check, then p.source.Stream(ctx)
RunStart ==
    /\ drvPc = "config"
    /\ IF sink = "nil"
       THEN /\ result' = Err("sink is required", 0)
            /\ drvPc' = "returned"
            /\ UNCHANGED <<chans, srcPc>>
       ELSE IF StreamFails
       THEN /\ result' = Err("start source", 0)
            /\ drvPc' = "returned"
            /\ UNCHANGED <<chans, srcPc>>
       ELSE /\ Stream
            /\ drvPc' = "process"
            /\ UNCHANGED result
    /\ runs' = runs + 1
    /\ UNCHANGED <<libVars, cfgVars, errChan, ctxErr, feedVars, srcMsg, ticks, polls, observed, opVars, conVars,
                   waitPc, obsVars, sigOrder, stalled>>

\* operators whose Process has been called
started == Cardinality({i \in 1..Len(operators) : opPc[i] # "idle"})

\* pipeline.go:75-81: op.Process(ctx, current) makes the out channel and starts the forwarder
RunProcess ==
    /\ drvPc = "process"
    /\ started < Len(operators)
    /\ chans' = [chans EXCEPT ![started + 1] = NewChan]
    /\ opPc' = [opPc EXCEPT ![started + 1] = "range"]
    /\ UNCHANGED <<libVars, cfgVars, errChan, ctxErr, feedVars, srcVars, opMsg, conVars, waitPc,
                   drvVars, obsVars, sigOrder, stalled>>

\* pipeline.go:84-105: start the consumer and the completion waiter
RunSpawn ==
    /\ drvPc = "process"
    /\ started = Len(operators)
    /\ conPc' = "range"
    /\ waitPc' = "wait"
    /\ drvPc' = "select"
    /\ UNCHANGED <<libVars, cfgVars, errChan, ctxErr, feedVars, chans, srcVars, opVars, conMsg,
                   result, runs, obsVars, sigOrder, stalled>>

\* pipeline.go:107-120: select over done, ctx.Done() and p.errChan
RunSelect ==
    /\ drvPc = "select"
    /\ \/ /\ doneClosed
          /\ drvPc' = "closeSink"
          /\ UNCHANGED <<result, errChan>>
       \/ /\ cancelled
          /\ result' = CtxErr
          /\ drvPc' = "returned"
          /\ UNCHANGED errChan
       \/ /\ errChan # <<>>
          /\ result' = Head(errChan)
          /\ errChan' = Tail(errChan)
          /\ drvPc' = "returned"
    /\ UNCHANGED <<libVars, cfgVars, ctxErr, feedVars, chans, srcVars, opVars, conVars, waitPc,
                   runs, obsVars, sigOrder, stalled>>

\* faulty variant of RunCloseSink: the source is closed where the sink should be
RunCloseSink_SourceFirst ==
    /\ drvPc = "closeSink"
    /\ closes' = Append(closes, "source")
    /\ drvPc' = "closeSource"
    /\ UNCHANGED <<libVars, cfgVars, errChan, ctxErr, feedVars, chans, srcVars, opVars, conVars,
                   waitPc, result, runs, written, failed, emitted, sent, sigOrder, stalled>>

\* pipeline.go:109-111: p.sink.Close(); the sink decides whether it fails
RunCloseSink ==
    /\ drvPc = "closeSink"
    /\ closes' = Append(closes, "sink")
    /\ \E ok \in BOOLEAN :
          IF ok
          THEN /\ drvPc' = "closeSource"
               /\ UNCHANGED result
          ELSE /\ result' = Err("close sink", 0)
               /\ drvPc' = "returned"
    /\ UNCHANGED <<libVars, cfgVars, errChan, ctxErr, feedVars, chans, srcVars, opVars, conVars,
                   waitPc, runs, written, failed, emitted, sent, sigOrder, stalled>>

\* Close of the source: nil from each of the three sources of the repository; the
\* Source interface (pipeline.go:134-137) lets an implementation return an error
SourceCloseFails == "close" \in DOMAIN source /\ source.close = "error"

\* faulty variant of RunCloseSource: the error of p.source.Close() is dropped
RunCloseSource_IgnoreError ==
    /\ drvPc = "closeSource"
    /\ closes' = Append(closes, "source")
    /\ result' = Nil
    /\ drvPc' = "returned"
    /\ UNCHANGED <<libVars, cfgVars, errChan, ctxErr, feedVars, chans, srcVars, opVars, conVars,
                   waitPc, runs, written, failed, emitted, sent, sigOrder, stalled>>

\* pipeline.go:112-115: if err := p.source.Close(); err != nil { return "close source" };
\* return nil
RunCloseSource ==
    /\ drvPc = "closeSource"
    /\ closes' = Append(closes, "source")
    /\ result' = IF SourceCloseFails THEN Err("close source", 0) ELSE Nil
    /\ drvPc' = "returned"
    /\ UNCHANGED <<libVars, cfgVars, errChan, ctxErr, feedVars, chans, srcVars, opVars, conVars,
                   waitPc, runs, written, failed, emitted, sent, sigOrder, stalled>>

Configure ==
    \/ \E fn \in Funcs : Map(fn)
    \/ \E fn \in Preds : Filter(fn)
    \/ To

Environment ==
    \/ \E v \in Values : Feed(v)
    \/ CloseFeed
    \/ \E reason \in CancelReasons : Cancel(reason)

Source ==
    \/ ChannelSelect \/ ChannelSend
    \/ CronSelect \/ CronSend
    \/ HTTPNewTicker \/ HTTPPoll \/ HTTPPollSend \/ HTTPSelect

Operator(i) == MapStep(i) \/ FilterStep(i) \/ OperatorSend(i)

Consumer == ConsumerRange \/ (\E ok \in BOOLEAN : ConsumerWrite(ok)) \/ ConsumerForward

Run == RunStart \/ RunProcess \/ RunSpawn \/ RunSelect \/ RunCloseSink \/ RunCloseSource

Next ==
    \/ Configure
    \/ Environment
    \/ Source
    \/ \E i \in 1..MaxOps : Operator(i)
    \/ Consumer
    \/ WaiterClose
    \/ Run

Spec == Init /\ [][Next]_vars

(***************************************************************************)
(* A pipeline without operators fed a burst of distinct values 1, 2, ...   *)
(* that is longer than the source's channel, with a sink that never fails  *)
(* and a context that is never cancelled: the consumer may lag until the   *)
(* channel is full and the producer blocks.                                *)
(***************************************************************************)
FeedBurst ==
    /\ Len(fed) < MaxBurst
    /\ FeedSend(Len(fed) + 1)

BurstInit == Init /\ source.kind = "channel"

BurstNext ==
    \/ \E size \in BufferSizes : WithBufferSize(size)
    \/ To
    \/ FeedBurst
    \/ CloseFeed
    \/ ChannelSelect \/ ChannelSend
    \/ ConsumerRange
    \/ ConsumerWrite(TRUE)
    \/ WaiterClose
    \/ RunStart \/ RunSpawn \/ RunSelect \/ RunCloseSink \/ RunCloseSource

BurstSpec == BurstInit /\ [][BurstNext]_vars

(***************************************************************************)
(* A pipeline without operators over an interval-driven source whose       *)
(* interval is negative, zero or positive.                                 *)
(***************************************************************************)
StreamInit == source \in IntervalSources /\ Start /\ Unused

StreamNext ==
    \/ To
    \/ \E reason \in CancelReasons : Cancel(reason)
    \/ CronSelect \/ CronSend
    \/ HTTPNewTicker \/ HTTPPoll \/ HTTPPollSend \/ HTTPSelect
    \/ Consumer
    \/ WaiterClose
    \/ RunStart \/ RunSpawn \/ RunSelect \/ RunCloseSink \/ RunCloseSource

StreamSpec == StreamInit /\ [][StreamNext]_vars

(***************************************************************************)
(* A pipeline without operators over an HTTP source whose endpoint gives   *)
(* every kind of response.                                                 *)
(***************************************************************************)
PollInit == source \in PollSources /\ Start /\ Unused

PollNext ==
    \/ To
    \/ \E reason \in CancelReasons : Cancel(reason)
    \/ HTTPNewTicker \/ HTTPPoll \/ HTTPPollSend \/ HTTPSelect
    \/ Consumer
    \/ WaiterClose
    \/ RunStart \/ RunSpawn \/ RunSelect \/ RunCloseSink \/ RunCloseSource

PollSpec == PollInit /\ [][PollNext]_vars

(***************************************************************************)
(* HTTPSink (sink/http.go).  What a call of Write meets: the marshaler     *)
(* and http.NewRequestWithContext succeed or fail, client.Do fails or      *)
(* brings a response with a status.                                        *)
(***************************************************************************)
SinkStatuses == {199, 200, 204, 299, 300, 404}

Exchanges ==
    [marshal : {"ok", "error"}, request : {"ok", "error"}, transport : {"ok", "error"},
     status : SinkStatuses]

\* faulty variant of HTTPSinkWrite: every status but 200 is an error
HTTPSinkWrite_Only200(x) ==
    IF x.marshal = "error" THEN Err("marshal message", 0)
    ELSE IF x.request = "error" THEN Err("create request", 0)
    ELSE IF x.transport = "error" THEN Err("send request", 0)
    ELSE IF x.status # 200 THEN Err("unexpected status code", x.status)
    ELSE Nil

\* HTTPSink.Write (sink/http.go:66-92): what it returns
HTTPSinkWrite(x) ==
    IF x.marshal = "error" THEN Err("marshal message", 0)
    ELSE IF x.request = "error" THEN Err("create request", 0)
    ELSE IF x.transport = "error" THEN Err("send request", 0)
    ELSE IF x.status < 200 \/ x.status >= 300 THEN Err("unexpected status code", x.status)
    ELSE Nil

\* the pipeline is not in use
NoSource == [kind |-> "none", interval |-> 0]

\* one call of Write
HTTPSinkWriteCall ==
    /\ Len(httpSink.writes) < MaxWrites
    /\ \E x \in Exchanges :
          httpSink' = [httpSink EXCEPT !.writes = Append(@, [met |-> x, ret |-> HTTPSinkWrite(x)])]
    /\ UNCHANGED <<graph, builder, codec, watch, cfgVars, errChan, ctxErr, feedVars, chans, srcVars, opVars, conVars,
                   waitPc, drvVars, obsVars, sigOrder, stalled>>

HTTPSinkInit ==
    /\ source = NoSource /\ Start
    /\ httpSink = NoHTTPSink /\ graph = NoGraph /\ builder = NoBuilder /\ codec = NoCodec /\ watch = NoWatch

HTTPSinkNext == HTTPSinkWriteCall

HTTPSinkSpec == HTTPSinkInit /\ [][HTTPSinkNext]_vars

(***************************************************************************)
(* DependencyGraph (workflow/dag.go).  g.tasks maps a task name to the     *)
(* list of its Dependencies; a range over the map visits the names in an   *)
(* order the runtime picks.                                                *)
(***************************************************************************)
TaskNames == {"a", "b", "c"}

\* names a dependency can have: the task names and one that names no task
DepNames == TaskNames \cup {"x"}

DepLists == UNION {[1..n -> DepNames] : n \in 0..MaxDeps}

Graphs == UNION {[T -> DepLists] : T \in SUBSET TaskNames}

\* the orders in which a range over a map with these keys can visit them
Orders(T) ==
    {o \in [1..Cardinality(T) -> T] : \A i, j \in 1..Cardinality(T) : o[i] = o[j] => i = j}

CycleErr(task, dep) == [kind |-> "cycle detected", task |-> task, dep |-> dep]
MissingErr(task, dep) == [kind |-> "non-existent task", task |-> task, dep |-> dep]

\* hasCycle (dag.go:121-139); st holds the maps visited and recStack (as the sets of
\* the names mapped to true) and the error returned
RECURSIVE hasCycle(_, _, _)
RECURSIVE hasCycleDeps(_, _, _, _)
hasCycle(g, task, st) ==
    LET st1 == [st EXCEPT !.visited = @ \cup {task}, !.recStack = @ \cup {task}]
        st2 == IF task \in DOMAIN g THEN hasCycleDeps(g, task, g[task], st1) ELSE st1
    IN  IF st2.err # Nil THEN st2
        ELSE [st2 EXCEPT !.recStack = @ \ {task}]

\* the loop over t.Dependencies in hasCycle (dag.go:126-134)
hasCycleDeps(g, task, deps, st) ==
    IF deps = <<>> THEN st
    ELSE LET dep == Head(deps)
         IN  IF dep \notin st.visited
             THEN LET r == hasCycle(g, dep, st)
                  IN  IF r.err # Nil THEN r ELSE hasCycleDeps(g, task, Tail(deps), r)
             ELSE IF dep \in st.recStack
             THEN [st EXCEPT !.err = CycleErr(task, dep)]
             ELSE hasCycleDeps(g, task, Tail(deps), st)

\* the first loop of Validate (dag.go:102-106) over the names in this order
RECURSIVE CycleLoop(_, _, _)
CycleLoop(g, names, st) ==
    IF names = <<>> THEN st
    ELSE LET r == hasCycle(g, Head(names), st)
         IN  IF r.err # Nil THEN r ELSE CycleLoop(g, Tail(names), r)

\* the inner loop of the second loop of Validate (dag.go:110-114)
RECURSIVE MissingDeps(_, _, _)
MissingDeps(g, name, deps) ==
    IF deps = <<>> THEN Nil
    ELSE IF Head(deps) \notin DOMAIN g THEN MissingErr(name, Head(deps))
    ELSE MissingDeps(g, name, Tail(deps))

\* the second loop of Validate (dag.go:109-115) over the names in this order
RECURSIVE MissingLoop(_, _)
MissingLoop(g, names) ==
    IF names = <<>> THEN Nil
    ELSE LET e == MissingDeps(g, Head(names), g[Head(names)])
         IN  IF e # Nil THEN e ELSE MissingLoop(g, Tail(names))

\* faulty variant of Validate: the dependencies are not looked up
Validate_NoMissingCheck(g, o1, o2) ==
    CycleLoop(g, o1, [visited |-> {}, recStack |-> {}, err |-> Nil]).err

\* Validate (dag.go:98-118) when its two range loops visit the names in the orders o1, o2
Validate(g, o1, o2) ==
    LET st == CycleLoop(g, o1, [visited |-> {}, recStack |-> {}, err |-> Nil])
    IN  IF st.err # Nil THEN st.err ELSE MissingLoop(g, o2)

\* faulty variant of topologicalSortUtil: the task is appended before its dependencies
RECURSIVE topologicalSortUtil_PreOrder(_, _, _)
RECURSIVE topologicalSortDeps_PreOrder(_, _, _)
topologicalSortUtil_PreOrder(g, task, st) ==
    LET st1 == [st EXCEPT !.visited = @ \cup {task}, !.stack = Append(@, task)]
    IN  IF task \in DOMAIN g THEN topologicalSortDeps_PreOrder(g, g[task], st1) ELSE st1

topologicalSortDeps_PreOrder(g, deps, st) ==
    IF deps = <<>> THEN st
    ELSE IF Head(deps) \notin st.visited
    THEN topologicalSortDeps_PreOrder(g, Tail(deps),
                                      topologicalSortUtil_PreOrder(g, Head(deps), st))
    ELSE topologicalSortDeps_PreOrder(g, Tail(deps), st)

\* topologicalSortUtil (dag.go:162-174); st holds visited and *stack
RECURSIVE topologicalSortUtil(_, _, _)
RECURSIVE topologicalSortDeps(_, _, _)
topologicalSortUtil(g, task, st) ==
    LET st1 == [st EXCEPT !.visited = @ \cup {task}]
        st2 == IF task \in DOMAIN g THEN topologicalSortDeps(g, g[task], st1) ELSE st1
    IN  [st2 EXCEPT !.stack = Append(@, task)]

\* the loop over t.Dependencies in topologicalSortUtil (dag.go:166-170)
topologicalSortDeps(g, deps, st) ==
    IF deps = <<>> THEN st
    ELSE IF Head(deps) \notin st.visited
    THEN topologicalSortDeps(g, Tail(deps), topologicalSortUtil(g, Head(deps), st))
    ELSE topologicalSortDeps(g, Tail(deps), st)

\* the loop of TopologicalSort (dag.go:151-155) over the names in this order
RECURSIVE SortLoop(_, _, _)
SortLoop(g, names, st) ==
    IF names = <<>> THEN st
    ELSE IF Head(names) \notin st.visited
    THEN SortLoop(g, Tail(names), topologicalSortUtil(g, Head(names), st))
    ELSE SortLoop(g, Tail(names), st)

\* TopologicalSort (dag.go:143-160): nil and the error of Validate, or the stack
TopologicalSort(g, o1, o2, o3) ==
    LET e == Validate(g, o1, o2)
    IN  IF e # Nil THEN [order |-> <<>>, err |-> e]
        ELSE [order |-> SortLoop(g, o3, [visited |-> {}, stack |-> <<>>]).stack,
              err |-> Nil]

\* g.Validate()
ValidateCall ==
    /\ graph.validated = NotCalled
    /\ \E o1, o2 \in Orders(DOMAIN graph.tasks) :
          graph' = [graph EXCEPT !.validated = [err |-> Validate(graph.tasks, o1, o2)]]
    /\ UNCHANGED <<httpSink, builder, codec, watch, cfgVars, errChan, ctxErr, feedVars, chans, srcVars, opVars, conVars,
                   waitPc, drvVars, obsVars, sigOrder, stalled>>

\* g.TopologicalSort(); the third order is used only when Validate returns nil
TopologicalSortCall ==
    /\ graph.sorted = NotCalled
    /\ \E o1, o2 \in Orders(DOMAIN graph.tasks) :
          \E o3 \in (IF Validate(graph.tasks, o1, o2) # Nil
                     THEN {o1}
                     ELSE Orders(DOMAIN graph.tasks)) :
              graph' = [graph EXCEPT !.sorted = TopologicalSort(graph.tasks, o1, o2, o3)]
    /\ UNCHANGED <<httpSink, builder, codec, watch, cfgVars, errChan, ctxErr, feedVars, chans, srcVars, opVars, conVars,
                   waitPc, drvVars, obsVars, sigOrder, stalled>>

\* NewDependencyGraph(tasks) for every task list within the bounds
GraphInit ==
    /\ source = NoSource /\ Start
    /\ httpSink = NoHTTPSink /\ builder = NoBuilder /\ codec = NoCodec /\ watch = NoWatch
    /\ \E g \in Graphs : graph = [tasks |-> g, validated |-> NotCalled, sorted |-> NotCalled]

GraphNext == ValidateCall \/ TopologicalSortCall

GraphSpec == GraphInit /\ [][GraphNext]_vars

(***************************************************************************)
(* Builder (workflow/builder.go): the fluent methods and Build.            *)
(***************************************************************************)
WorkflowNames == {"wf", "other"}

Namespaces == {"argo", "default"}

\* names of templates; a template is given by its Name
TemplateNames == {"main", "step"}

\* names handed to WithEntrypoint: the empty name, names of templates, and one that
\* no template has
EntrypointNames == {""} \cup TemplateNames \cup {"missing"}

NoWorkflow == [Name |-> "", Namespace |-> "", Entrypoint |-> "", Templates |-> <<>>]

\* faulty variant of Build: the entrypoint is not looked up among the templates
Build_NoEntrypointLookup(b) ==
    IF b.entrypoint = ""
    THEN [wf |-> NoWorkflow, err |-> Err("entrypoint is required", 0)]
    ELSE IF Len(b.templates) = 0
    THEN [wf |-> NoWorkflow, err |-> Err("at least one template is required", 0)]
    ELSE [wf |-> [Name |-> b.name, Namespace |-> b.namespace, Entrypoint |-> b.entrypoint,
                  Templates |-> b.templates],
          err |-> Nil]

\* Build (builder.go:92-130): the workflow (nil: NoWorkflow) and the error
Build(b) ==
    IF b.entrypoint = ""
    THEN [wf |-> NoWorkflow, err |-> Err("entrypoint is required", 0)]
    ELSE IF Len(b.templates) = 0
    THEN [wf |-> NoWorkflow, err |-> Err("at least one template is required", 0)]
    ELSE IF ~\E k \in 1..Len(b.templates) : b.templates[k].Name = b.entrypoint
    THEN [wf |-> NoWorkflow, err |-> Err("entrypoint template not found", 0)]
    ELSE [wf |-> [Name |-> b.name, Namespace |-> b.namespace, Entrypoint |-> b.entrypoint,
                  Templates |-> b.templates],
          err |-> Nil]

BuilderUnchanged ==
    UNCHANGED <<httpSink, graph, codec, watch, cfgVars, errChan, ctxErr, feedVars, chans, srcVars, opVars,
                conVars, waitPc, drvVars, obsVars, sigOrder, stalled>>

\* builder.go:48 WithNamespace
WithNamespace(ns) ==
    /\ builder.built = NotCalled
    /\ builder' = [builder EXCEPT !.namespace = ns]
    /\ BuilderUnchanged

\* builder.go:60 WithEntrypoint
WithEntrypoint(name) ==
    /\ builder.built = NotCalled
    /\ builder' = [builder EXCEPT !.entrypoint = name]
    /\ BuilderUnchanged

\* builder.go:66 WithTemplate
WithTemplate(t) ==
    /\ builder.built = NotCalled
    /\ Len(builder.templates) < MaxTemplates
    /\ builder' = [builder EXCEPT !.templates = Append(@, t)]
    /\ BuilderUnchanged

\* b.Build() at the end of the chain
BuildCall ==
    /\ builder.built = NotCalled
    /\ builder' = [builder EXCEPT !.built = Build(builder)]
    /\ BuilderUnchanged

\* New(name) (builder.go:32-39)
BuilderInit ==
    /\ source = NoSource /\ Start
    /\ httpSink = NoHTTPSink /\ graph = NoGraph /\ codec = NoCodec /\ watch = NoWatch
    /\ \E name \in WorkflowNames : builder = [NoBuilder EXCEPT !.name = name]

BuilderNext ==
    \/ \E ns \in Namespaces : WithNamespace(ns)
    \/ \E name \in EntrypointNames : WithEntrypoint(name)
    \/ \E name \in TemplateNames : WithTemplate([Name |-> name])
    \/ BuildCall

BuilderSpec == BuilderInit /\ [][BuilderNext]_vars

(***************************************************************************)
(* The default marshaler of the HTTP sink, json.Marshal(v) (sink/http.go:  *)
(* 32-34), and the default parser of the HTTP source, json.Unmarshal(data, *)
(* &result) with var result T (source/http.go:26-33).  A Go value is       *)
(* [kind, ...] with kind its dynamic type; a string is the sequence of its *)
(* bytes, of which "xFF" is not valid UTF-8; a float64 is given by its     *)
(* shortest decimal literal.  JSON text is a sequence of tokens.           *)
(***************************************************************************)
Chars == {"a", "quote", "lt", "xFF"}

Strings == UNION {[1..n -> Chars] : n \in 0..MaxStrLen}

IntValues == {[kind |-> "int", n |-> n] : n \in -1..1}

BoolValues == {[kind |-> "bool", b |-> b] : b \in BOOLEAN}

StringValues == {[kind |-> "string", chars |-> s] : s \in Strings}

FloatValues == {[kind |-> "float64", lit |-> l] : l \in {"0", "1", "1.5", "NaN", "+Inf"}}

NilValue == [kind |-> "nil"]

Types == {"int", "bool", "string", "float64", "any"}

\* the values of the declared type T
ValuesOf(T) ==
    CASE T = "int" -> IntValues
      [] T = "bool" -> BoolValues
      [] T = "string" -> StringValues
      [] T = "float64" -> FloatValues
      [] T = "any" -> {NilValue} \cup IntValues \cup BoolValues \cup StringValues
                          \cup FloatValues

\* encoding/json writes a string: a quote is escaped, "<" is written as \u003c, a byte
\* that is not valid UTF-8 is written as \ufffd
EscapeChar(c) ==
    CASE c = "quote" -> "\\quote"
      [] c = "lt" -> "\\u003c"
      [] c = "xFF" -> "\\ufffd"
      [] OTHER -> c

\* encoding/json reads a string
UnescapeChar(t) ==
    CASE t = "\\quote" -> "quote"
      [] t = "\\u003c" -> "lt"
      [] t = "\\ufffd" -> "uFFFD"
      [] OTHER -> t

\* json.Marshal(v): the text and the error
Marshal(v) ==
    CASE v.kind = "nil" -> [data |-> <<"null">>, err |-> Nil]
      [] v.kind = "int" -> [data |-> <<ToString(v.n)>>, err |-> Nil]
      [] v.kind = "bool" -> [data |-> <<IF v.b THEN "true" ELSE "false">>, err |-> Nil]
      [] v.kind = "float64" ->
            IF v.lit \in {"NaN", "+Inf"}
            THEN [data |-> <<>>, err |-> Err("json: unsupported value", 0)]
            ELSE [data |-> <<v.lit>>, err |-> Nil]
      [] v.kind = "string" ->
            [data |-> <<"dquote">> \o [k \in 1..Len(v.chars) |-> EscapeChar(v.chars[k])]
                          \o <<"dquote">>,
             err |-> Nil]

IsString(data) == Len(data) >= 2 /\ data[1] = "dquote" /\ data[Len(data)] = "dquote"

IsInteger(data) == Len(data) = 1 /\ \E n \in -9..9 : ToString(n) = data[1]

IsNumber(data) == Len(data) = 1 /\ (IsInteger(data) \/ data[1] \in {"1.5"})

IsBool(data) == data \in {<<"true">>, <<"false">>}

ReadString(data) ==
    [kind |-> "string",
     chars |-> [k \in 1..(Len(data) - 2) |-> UnescapeChar(data[k + 1])]]

CannotUnmarshal == Err("json: cannot unmarshal", 0)

\* var result T; err := json.Unmarshal(data, &result): result and err
Unmarshal(T, data) ==
    CASE T = "int" ->
            IF IsInteger(data)
            THEN [result |-> [kind |-> "int", n |-> CHOOSE n \in -9..9 : ToString(n) = data[1]],
                  err |-> Nil]
            ELSE [result |-> [kind |-> "int", n |-> 0], err |-> CannotUnmarshal]
      [] T = "bool" ->
            IF IsBool(data)
            THEN [result |-> [kind |-> "bool", b |-> data = <<"true">>], err |-> Nil]
            ELSE [result |-> [kind |-> "bool", b |-> FALSE], err |-> CannotUnmarshal]
      [] T = "string" ->
            IF IsString(data)
            THEN [result |-> ReadString(data), err |-> Nil]
            ELSE [result |-> [kind |-> "string", chars |-> <<>>], err |-> CannotUnmarshal]
      [] T = "float64" ->
            IF IsNumber(data)
            THEN [result |-> [kind |-> "float64", lit |-> data[1]], err |-> Nil]
            ELSE [result |-> [kind |-> "float64", lit |-> "0"], err |-> CannotUnmarshal]
      [] T = "any" ->
            \* into an interface: a number becomes a float64, null leaves nil
            IF data = <<"null">> THEN [result |-> NilValue, err |-> Nil]
            ELSE IF IsNumber(data)
            THEN [result |-> [kind |-> "float64", lit |-> data[1]], err |-> Nil]
            ELSE IF IsBool(data)
            THEN [result |-> [kind |-> "bool", b |-> data = <<"true">>], err |-> Nil]
            ELSE IF IsString(data) THEN [result |-> ReadString(data), err |-> Nil]
            ELSE [result |-> NilValue, err |-> CannotUnmarshal]

CodecUnchanged ==
    UNCHANGED <<httpSink, graph, builder, watch, cfgVars, errChan, ctxErr, feedVars, chans, srcVars,
                opVars, conVars, waitPc, drvVars, obsVars, sigOrder, stalled>>

\* the sink's marshaler is applied to msg.Value (sink/http.go:67)
MarshalCall ==
    /\ codec.stage = "value"
    /\ codec' = [codec EXCEPT !.stage = "marshalled", !.out = Marshal(codec.value)]
    /\ CodecUnchanged

\* the source's parser is applied to the body the sink sent (source/http.go:98)
ParseCall ==
    /\ codec.stage = "marshalled"
    /\ codec.out.err = Nil
    /\ codec' = [codec EXCEPT !.stage = "parsed", !.in = Unmarshal(codec.T, codec.out.data)]
    /\ CodecUnchanged

NoOutput == [data |-> <<>>, err |-> Nil]

NoInput == [result |-> NilValue, err |-> Nil]

\* a pipeline of declared type T and a value of that type
CodecInit ==
    /\ source = NoSource /\ Start
    /\ httpSink = NoHTTPSink /\ graph = NoGraph /\ builder = NoBuilder /\ watch = NoWatch
    /\ \E T \in Types : \E v \in ValuesOf(T) :
          codec = [stage |-> "value", T |-> T, value |-> v, out |-> NoOutput, in |-> NoInput]

CodecNext == MarshalCall \/ ParseCall

CodecSpec == CodecInit /\ [][CodecNext]_vars

(***************************************************************************)
(* HTTPClient.WatchWorkflow (part_003:262-304): the polling goroutine,     *)
(* which sends on the unbuffered channel events, the owner of the context  *)
(* and the caller, which receives from events until it stops.              *)
(***************************************************************************)
Phases == {"", "Running", "Succeeded", "Failed", "Error"}

\* wf.Status.Phase == "Succeeded" || ... == "Failed" || ... == "Error"
Complete(phase) == phase \in {"Succeeded", "Failed", "Error"}

\* what c.GetWorkflow returns: an error, or a workflow in some phase
GetResults ==
    {[err |-> TRUE, phase |-> ""]} \cup {[err |-> FALSE, phase |-> p] : p \in Phases}

ClientNamespace == "default"        \* c.namespace

WatchUnchanged ==
    UNCHANGED <<httpSink, graph, builder, codec, cfgVars, errChan, ctxErr, feedVars, chans,
                srcVars, opVars, conVars, waitPc, drvVars, obsVars, sigOrder, stalled>>

\* defer close(events); return
WatchReturn == [watch EXCEPT !.pc = "done", !.closed = TRUE, !.wf = ""]

\* select { case <-ctx.Done(): return; case <-ticker.C: ... }
WatchSelect ==
    /\ watch.pc = "select"
    /\ \/ /\ watch.ctx = "canceled"
          /\ watch' = WatchReturn
       \/ /\ watch.ticks < MaxWatchTicks
          /\ watch' = [watch EXCEPT !.pc = "get", !.ticks = @ + 1]
    /\ WatchUnchanged

\* part_003:281-296: wf, err := c.GetWorkflow(ctx, namespace, name), whose request fails
\* when the context is done; continue on an error; an event is due when the phase is
\* not lastPhase; return when the workflow is complete
WatchGet ==
    /\ watch.pc = "get"
    /\ \E r \in GetResults :
          /\ watch.ctx = "canceled" => r.err
          /\ watch' = IF r.err THEN [watch EXCEPT !.pc = "select"]
                      ELSE IF r.phase # watch.lastPhase
                      THEN [watch EXCEPT !.pc = "send", !.wf = r.phase]
                      ELSE IF Complete(r.phase) THEN WatchReturn
                      ELSE [watch EXCEPT !.pc = "select"]
    /\ WatchUnchanged

\* events <- WorkflowEvent{Type: "MODIFIED", Workflow: wf}; lastPhase = wf.Status.Phase:
\* the send on the unbuffered channel completes when the caller receives
WatchSend ==
    /\ watch.pc = "send"
    /\ watch.receiving
    /\ watch' = IF Complete(watch.wf)
                THEN [watch EXCEPT !.pc = "done", !.closed = TRUE, !.wf = "",
                                   !.lastPhase = watch.wf,
                                   !.received = Append(@, watch.wf)]
                ELSE [watch EXCEPT !.pc = "select", !.wf = "",
                                   !.lastPhase = watch.wf,
                                   !.received = Append(@, watch.wf)]
    /\ WatchUnchanged

\* the caller stops receiving from events
CallerStops ==
    /\ watch.pc # "unused"
    /\ watch.receiving
    /\ watch' = [watch EXCEPT !.receiving = FALSE]
    /\ WatchUnchanged

\* cancel() of the context passed to WatchWorkflow
WatchCancel ==
    /\ watch.pc # "unused"
    /\ watch.ctx = "nil"
    /\ watch' = [watch EXCEPT !.ctx = "canceled"]
    /\ WatchUnchanged

\* WatchWorkflow(ctx, namespace, name) has returned events: the goroutine is at its select
WatchInit ==
    /\ source = NoSource /\ Start
    /\ httpSink = NoHTTPSink /\ graph = NoGraph /\ builder = NoBuilder /\ codec = NoCodec
    /\ \E ns \in {"", "argo"} :
          watch = [pc |-> "select", namespace |-> IF ns = "" THEN ClientNamespace ELSE ns,
                   ctx |-> "nil", ticks |-> 0, lastPhase |-> "", wf |-> "",
                   closed |-> FALSE, received |-> <<>>, receiving |-> TRUE]

WatchNext == WatchSelect \/ WatchGet \/ WatchSend \/ CallerStops \/ WatchCancel

\* the polling goroutine takes every step it can take; the caller and the owner of the
\* context need not act
WatchSpec == WatchInit /\ [][WatchNext]_vars /\ WF_vars(WatchSelect \/ WatchGet \/ WatchSend)

(***************************************************************************)
(* The Go scheduler runs every goroutine that can take a step: weak        *)
(* fairness for each task and for the driver once Run has been called.     *)
(* The owner of the feed and of the context need not act.                  *)
(***************************************************************************)
Fairness ==
    /\ WF_vars(Source)
    /\ \A i \in 1..MaxOps : WF_vars(Operator(i))
    /\ WF_vars(Consumer)
    /\ WF_vars(WaiterClose)
    /\ WF_vars(RunProcess \/ RunSpawn \/ RunSelect \/ RunCloseSink \/ RunCloseSource)

LiveSpec == Init /\ [][Next]_vars /\ Fairness

(***************************************************************************)
(* A pipeline without operators fed values 1, 2, ... with a sink whose     *)
(* Write fails on every call; the context may be cancelled or not.         *)
(***************************************************************************)
FeedErrors ==
    /\ Len(fed) < MaxErrors
    /\ FeedSend(Len(fed) + 1)

ErrorNext ==
    \/ To
    \/ FeedErrors
    \/ CloseFeed
    \/ \E reason \in CancelReasons : Cancel(reason)
    \/ ChannelSelect \/ ChannelSend
    \/ ConsumerRange
    \/ ConsumerWrite(FALSE)
    \/ ConsumerForward
    \/ WaiterClose
    \/ RunStart \/ RunSpawn \/ RunSelect \/ RunCloseSink \/ RunCloseSource

ErrorSpec == BurstInit /\ [][ErrorNext]_vars /\ Fairness

(***************************************************************************)
(* A pipeline without operators over a Source that streams as the channel  *)
(* adapter does and whose Close returns nil or an error.                   *)
(***************************************************************************)
CloseSources == {[kind |-> "channel", interval |-> 0, close |-> c] : c \in {"nil", "error"}}

CloseInit == source \in CloseSources /\ Start /\ Unused

CloseNext ==
    \/ To
    \/ Environment
    \/ ChannelSelect \/ ChannelSend
    \/ Consumer
    \/ WaiterClose
    \/ RunStart \/ RunSpawn \/ RunSelect \/ RunCloseSink \/ RunCloseSource

CloseSpec == CloseInit /\ [][CloseNext]_vars

(***************************************************************************)
(* A pipeline without operators over a timer source whose ticker delivers  *)
(* more ticks than its channel holds, with a sink that never fails; the    *)
(* consumer may lag until the channel is full.                             *)
(***************************************************************************)
CronBurstInit == source = [kind |-> "cron", interval |-> 1] /\ Start /\ Unused

CronBurstNext ==
    \/ To
    \/ \E reason \in CancelReasons : Cancel(reason)
    \/ CronBurstSelect \/ CronSend
    \/ ConsumerRange
    \/ ConsumerWrite(TRUE)
    \/ WaiterClose
    \/ RunStart \/ RunSpawn \/ RunSelect \/ RunCloseSink \/ RunCloseSource

CronBurstSpec == CronBurstInit /\ [][CronBurstNext]_vars

(***************************************************************************)
(* A pipeline with at most one Map operator and a sink whose Write fails   *)
(* on every call, under a context that is never cancelled.  The owner of   *)
(* the feed sends one value at a time, each when the tasks have come to    *)
(* rest on the values sent before.                                         *)
(***************************************************************************)
Quiet == ~ENABLED (Source \/ Operator(1) \/ Consumer \/ WaiterClose \/ Run)

FeedQuiet ==
    /\ Len(fed) < MaxStall
    /\ Quiet
    /\ FeedSend(1)

StallNext ==
    \/ \E fn \in Funcs : Map(fn)
    \/ To
    \/ FeedQuiet
    \/ CloseFeed
    \/ ChannelSelect \/ ChannelSend
    \/ MapStep(1) \/ OperatorSend(1)
    \/ ConsumerRange
    \/ ConsumerWrite(FALSE)
    \/ ConsumerForward
    \/ WaiterClose
    \/ Run

StallSpec == BurstInit /\ [][StallNext]_vars /\ Fairness

(***************************************************************************)
(* Vocabulary of the properties.                                           *)
(***************************************************************************)
returned == drvPc = "returned"

Kinds == [i \in 1..Len(operators) |-> operators[i].kind]

WrittenValues == [i \in 1..Len(written) |-> written[i].Value]

Occurred(s) == \E i \in 1..Len(sigOrder) : sigOrder[i] = s

Position(s) == CHOOSE i \in 1..Len(sigOrder) : sigOrder[i] = s

\* s occurred, and t did not occur before it
Before(s, t) == Occurred(s) /\ (Occurred(t) => Position(s) < Position(t))

MapSeq(f, seq) == [i \in 1..Len(seq) |-> f[seq[i]]]

RECURSIVE FilterSeq(_, _)
FilterSeq(p, seq) ==
    IF seq = <<>> THEN <<>>
    ELSE IF p[Head(seq)] THEN <<Head(seq)>> \o FilterSeq(p, Tail(seq))
    ELSE FilterSeq(p, Tail(seq))

\* the operators of the chain applied, in configured order, to a sequence of values
RECURSIVE Transform(_, _)
Transform(ops, seq) ==
    IF ops = <<>> THEN seq
    ELSE Transform(Tail(ops),
                   IF Head(ops).kind = "map" THEN MapSeq(Head(ops).fn, seq)
                   ELSE FilterSeq(Head(ops).fn, seq))

TasksIdle ==
    /\ srcPc = "idle"
    /\ \A i \in 1..MaxOps : opPc[i] = "idle"
    /\ conPc = "idle"
    /\ waitPc = "idle"

(***************************************************************************)
(* Run called again on the same pipeline object, with a fresh context,     *)
(* once the previous Run has started its source, has returned (Completed,  *)
(* Cancelled or Failed) and its goroutines have ended.  The                *)
(* pipeline keeps its fields (source, operators, sink, errChan), the timer *)
(* source keeps the channel made by NewCron and the feed keeps its         *)
(* contents; the observations start again for the new Run.                 *)
(***************************************************************************)
RunAgain ==
    /\ drvPc = "returned"
    /\ runs < MaxRuns
    /\ srcPc = "done"
    /\ \A i \in 1..MaxOps : opPc[i] \in {"idle", "done"}
    /\ conPc \in {"idle", "done"}
    /\ waitPc \in {"idle", "done"}
    /\ drvPc' = "config" /\ result' = NoResult
    /\ ctxErr' = "nil"
    /\ srcPc' = "idle" /\ srcMsg' = NoMsg /\ ticks' = 0 /\ polls' = <<>> /\ observed' = FALSE
    /\ opPc' = [i \in 1..MaxOps |-> "idle"]
    /\ opMsg' = [i \in 1..MaxOps |-> NoMsg]
    /\ conPc' = "idle" /\ conMsg' = NoMsg
    /\ waitPc' = "idle"
    /\ chans' = [i \in 0..MaxOps |-> IF i = 0 THEN chans[0] ELSE NewChan]
    /\ fed' = feed.buf
    /\ written' = <<>> /\ failed' = {} /\ closes' = <<>> /\ emitted' = <<>>
    /\ sent' = [i \in 0..MaxOps |-> <<>>]
    /\ stalled' = FALSE
    /\ sigOrder' = <<>>
    /\ UNCHANGED <<libVars, cfgVars, errChan, feed, runs>>

\* pipelines without operators, run up to MaxRuns times
RerunNext ==
    \/ To
    \/ Environment
    \/ Source
    \/ Consumer
    \/ WaiterClose
    \/ RunStart \/ RunSpawn \/ RunSelect \/ RunCloseSink \/ RunCloseSource
    \/ RunAgain

RerunSpec == Init /\ [][RerunNext]_vars

(***************************************************************************)
(* C1.  If some Sink.Write returned an error and the context is not        *)
(* cancelled, Run returns a sink-write error of one of the failed writes   *)
(* and has invoked no Close.                                               *)
(***************************************************************************)
C1_WriteErrorFailsRun ==
    (returned /\ failed # {} /\ ~cancelled) =>
        /\ result.kind = "sink write" /\ result.k \in failed
        /\ closes = <<>>

(***************************************************************************)
(* C2.  If the context is cancelled before the consumer loop has ended     *)
(* (and before Run's select took a case), a Run that started its source    *)
(* returns ctx.Err() and has invoked no Close.                             *)
(***************************************************************************)
C2_CancelReturnsReason ==
    (returned /\ srcPc # "idle" /\ Before("cancel", "done")) =>
        /\ result = CtxErr
        /\ closes = <<>>

(***************************************************************************)
(* C3.  Run returns nil only when the source producer and every operator   *)
(* have finished and every value the source emitted that passes the chain  *)
(* has been passed to Sink.Write.                                          *)
(***************************************************************************)
C3_NilOnlyWhenDrained ==
    result = Nil =>
        /\ srcPc = "done"
        /\ \A i \in 1..Len(operators) : opPc[i] = "done"
        /\ WrittenValues = Transform(operators, emitted)

(***************************************************************************)
(* C4.  Close is invoked only after the consumer loop has ended (so after  *)
(* its last Sink.Write returned), the sink's before the source's, and a    *)
(* Run that returns nil has invoked each exactly once.                     *)
(***************************************************************************)
C4_CloseOrder ==
    /\ closes # <<>> => conPc = "done"
    /\ closes \in {<<>>, <<"sink">>, <<"sink", "source">>}
    /\ result = Nil => closes = <<"sink", "source">>

C4_Witness ==
    /\ result = Nil
    /\ closes = <<"sink", "source">>
    /\ Len(written) = MaxFeed

(***************************************************************************)
(* C5.  The first terminal signal decides what a Run that started its      *)
(* source returns: an error queued first gives a sink-write error, the     *)
(* consumer loop ending first gives the completion path (Close is          *)
(* invoked), cancellation first gives ctx.Err().                           *)
(***************************************************************************)
C5_FirstSignalDecides ==
    (returned /\ srcPc # "idle") =>
        /\ Head(sigOrder) = "error" => result.kind = "sink write"
        /\ Head(sigOrder) = "done" => closes # <<>>
        /\ Head(sigOrder) = "cancel" => result = CtxErr

(***************************************************************************)
(* C6.  A pipeline Filter(p) then Map(f) that completes without            *)
(* cancellation and without a failed write has passed to Sink.Write        *)
(* exactly map(f, filter(p, input)), input being all the values fed.       *)
(***************************************************************************)
C6_FilterThenMap ==
    (Kinds = <<"filter", "map">> /\ conPc = "done" /\ ~cancelled /\ failed = {}) =>
        /\ feed.closed
        /\ WrittenValues = MapSeq(operators[2].fn, FilterSeq(operators[1].fn, fed))

C6_Witness ==
    /\ Kinds = <<"filter", "map">>
    /\ result = Nil /\ ~cancelled /\ failed = {}
    /\ Len(fed) >= 2 /\ fed[1] = 1 /\ fed[2] = 2
    /\ ~operators[1].fn[1] /\ operators[1].fn[2]
    /\ operators[2].fn[2] = 1
    /\ Len(written) >= 1 /\ written[1].Value = 1

(***************************************************************************)
(* C7.  Whatever capacity WithBufferSize has set, with no cancellation and *)
(* no failed write no value is lost, duplicated or reordered, however far  *)
(* the sink lags: at every moment the values written, followed by those    *)
(* in flight, are the values fed, and a Run that returns nil has written   *)
(* every value fed.                                                        *)
(***************************************************************************)
Held(pc, msg) == IF pc \in {"send", "write"} THEN <<msg.Value>> ELSE <<>>

BufferValues(c) == [i \in 1..Len(c.buf) |-> c.buf[i].Value]

InFlight ==
    Held(conPc, conMsg) \o BufferValues(chans[0]) \o Held(srcPc, srcMsg) \o feed.buf

C7_Backpressure ==
    bufferCap \in BufferSizes \cup {DefaultBufferCap} =>
        /\ WrittenValues \o InFlight = fed
        /\ result = Nil => (feed.closed /\ WrittenValues = fed)

C7_Witness ==
    /\ bufferCap = 1
    /\ stalled
    /\ result = Nil
    /\ Len(written) = MaxBurst

(***************************************************************************)
(* C8.  Once the context is cancelled, a Run that has been called returns  *)
(* and every task it started terminates.                                   *)
(***************************************************************************)
TasksTerminated ==
    /\ srcPc \in {"idle", "done"}
    /\ \A i \in 1..MaxOps : opPc[i] \in {"idle", "done"}
    /\ conPc \in {"idle", "done"}
    /\ waitPc \in {"idle", "done"}

C8_CancelTerminates ==
    (cancelled /\ drvPc # "config") ~> (returned /\ TasksTerminated)

C8_Witness ==
    /\ result = CtxErr
    /\ returned /\ TasksTerminated
    /\ Len(operators) = MaxOps
    /\ \A i \in 1..MaxOps : opPc[i] = "done"
    /\ conPc = "done" /\ waitPc = "done"
    /\ ~feed.closed
    /\ written # <<>>

(***************************************************************************)
(* C9.  No send on a closed channel and no second close; a channel of the  *)
(* chain is closed only once its producer has finished.                    *)
(***************************************************************************)
C9_ChannelDiscipline ==
    /\ \A i \in 0..MaxOps : chans[i].fault = "none"
    /\ chans[0].closed => srcPc = "done"
    /\ \A i \in 1..MaxOps : chans[i].closed => opPc[i] = "done"

C9_Witness ==
    /\ Len(operators) = MaxOps
    /\ cancelled /\ ~feed.closed
    /\ srcPc = "done"
    /\ \A i \in 1..MaxOps : opPc[i] = "done"
    /\ \A i \in 0..MaxOps : chans[i].closed
    /\ emitted # <<>>

(***************************************************************************)
(* C10. Run without a sink returns the configuration error at once:        *)
(* no task is started, nothing is written, no Close is invoked.            *)
(***************************************************************************)
C10_NoSink ==
    sink = "nil" =>
        /\ drvPc \in {"config", "returned"}
        /\ returned => result = Err("sink is required", 0)
        /\ TasksIdle
        /\ \A i \in 0..MaxOps : chans[i] = NewChan
        /\ written = <<>> /\ closes = <<>>

C10_Witness ==
    /\ sink = "nil"
    /\ returned
    /\ operators # <<>>
    /\ fed # <<>>

(***************************************************************************)
(* C11. When Stream returns an error (a timer source whose interval is not *)
(* positive), a Run with a sink returns the error wrapped as "start        *)
(* source" at once: no task is started, nothing is written, no Close.      *)
(***************************************************************************)
C11_StreamError ==
    (StreamFails /\ sink = "set" /\ runs > 0) =>
        /\ returned /\ result = Err("start source", 0)
        /\ TasksIdle
        /\ written = <<>> /\ closes = <<>>

C11_Witness ==
    /\ StreamFails /\ sink = "set"
    /\ returned /\ result = Err("start source", 0)
    /\ operators # <<>>
    /\ cancelled

(***************************************************************************)
(* C12. Stream on a timer source or an HTTP poll source whose interval is  *)
(* not positive returns an error (so Run returns it wrapped as "start      *)
(* source") and starts no producer goroutine.                              *)
(***************************************************************************)
C12_NonPositiveInterval ==
    (source.kind \in {"cron", "http"} /\ source.interval <= 0 /\ sink = "set" /\ runs > 0) =>
        /\ result = Err("start source", 0)
        /\ srcPc = "idle"

(***************************************************************************)
(* C13. Sink.Write is called by the consumer once for each message it      *)
(* takes from the terminal channel, in arrival order, and not again after  *)
(* a failure: the Write calls, then the message taken but not yet          *)
(* written, then the messages still in the terminal channel, are exactly   *)
(* the messages sent on the terminal channel.                              *)
(***************************************************************************)
Taken == IF conPc = "write" THEN <<conMsg>> ELSE <<>>

C13_WriteOncePerEnvelope ==
    written \o Taken \o chans[current].buf = sent[current]

C13_Witness ==
    /\ operators # <<>>
    /\ Len(written) = 2
    /\ 1 \in failed
    /\ conPc = "done"
    /\ written[1] # written[2]

(***************************************************************************)
(* C14. A Run that has started its source returns nil, ctx.Err() or the    *)
(* error of the first Sink.Write that failed, and nothing else.            *)
(***************************************************************************)
FirstFailed == CHOOSE k \in failed : \A j \in failed : k <= j

C14_ThreeOutcomes ==
    (returned /\ srcPc # "idle") =>
        \/ result = Nil
        \/ cancelled /\ result = CtxErr
        \/ failed # {} /\ result = SinkWriteErr(FirstFailed)

(***************************************************************************)
(* C15. A pipeline whose Run has returned is not run again: a second call  *)
(* of Run starts no source producer, no operator, no consumer.             *)
(***************************************************************************)
C15_NoReentry ==
    runs >= 2 => TasksIdle

(***************************************************************************)
(* C16. No channel of the chain ever holds more messages than the          *)
(* configured buffer capacity p.bufferCap.                                 *)
(***************************************************************************)
C16_BufferBound ==
    \A i \in 0..MaxOps : Len(chans[i].buf) <= bufferCap

(***************************************************************************)
(* C17. Without cancellation the Map operator emits, for the messages it   *)
(* has received, one message each, in the same order, with Value replaced  *)
(* by f(Value) and Key, Timestamp and Metadata as received.                *)
(***************************************************************************)
\* what operator i has received from its input channel, and what it has emitted or is
\* about to send
Received(i) == SubSeq(sent[i-1], 1, Len(sent[i-1]) - Len(chans[i-1].buf))

Emitted(i) == sent[i] \o (IF opPc[i] = "send" THEN <<opMsg[i]>> ELSE <<>>)

MapMessages(f, msgs) ==
    [k \in 1..Len(msgs) |->
        [Key |-> msgs[k].Key, Value |-> f[msgs[k].Value],
         Timestamp |-> msgs[k].Timestamp, Metadata |-> msgs[k].Metadata]]

C17_MapOneToOne ==
    ~cancelled =>
        \A i \in 1..Len(operators) :
            (operators[i].kind = "map" /\ opPc[i] # "idle") =>
                Emitted(i) = MapMessages(operators[i].fn, Received(i))

C17_Witness ==
    /\ ~cancelled
    /\ source.kind = "cron"
    /\ Kinds = <<"map">>
    /\ Len(sent[1]) = 1
    /\ sent[1][1].Key = "cron-1" /\ sent[1][1].Timestamp = 2
    /\ sent[1][1].Value # sent[0][1].Value
    /\ ~sent[1][1].Metadata.nil

(***************************************************************************)
(* C18. Without cancellation the Filter operator emits exactly the         *)
(* messages it has received whose Value satisfies the predicate, each      *)
(* unchanged, in the order received.                                       *)
(***************************************************************************)
RECURSIVE FilterMessages(_, _)
FilterMessages(p, msgs) ==
    IF msgs = <<>> THEN <<>>
    ELSE IF p[Head(msgs).Value] THEN <<Head(msgs)>> \o FilterMessages(p, Tail(msgs))
    ELSE FilterMessages(p, Tail(msgs))

C18_FilterSubsequence ==
    ~cancelled =>
        \A i \in 1..Len(operators) :
            (operators[i].kind = "filter" /\ opPc[i] # "idle") =>
                Emitted(i) = FilterMessages(operators[i].fn, Received(i))

C18_Witness ==
    /\ ~cancelled
    /\ source.kind = "channel"
    /\ Kinds = <<"filter">>
    /\ Len(sent[0]) = 2 /\ chans[0].buf = <<>>
    /\ sent[1] = <<sent[0][2]>>
    /\ sent[0][1].Value # sent[0][2].Value

(***************************************************************************)
(* C19. Every message a source has sent, and so every message buffered in  *)
(* a channel, held by an operator or by the consumer, or passed to         *)
(* Sink.Write, carries a non-nil Metadata map (possibly empty).            *)
(***************************************************************************)
Range(s) == {s[k] : k \in 1..Len(s)}

Delivered ==
    UNION {Range(sent[i]) \cup Range(chans[i].buf) : i \in 0..MaxOps}
        \cup Range(written)
        \cup (IF srcPc = "send" THEN {srcMsg} ELSE {})
        \cup {opMsg[i] : i \in {j \in 1..Len(operators) : opPc[j] = "send"}}
        \cup (IF conPc = "write" THEN {conMsg} ELSE {})

C19_MetadataNonNull == \A msg \in Delivered : ~msg.Metadata.nil

C19_Witness ==
    /\ Len(operators) = 1
    /\ Len(sent[0]) = 1 /\ Len(sent[1]) = 1 /\ Len(written) = 1
    /\ \A msg \in Delivered : msg.Metadata = MakeMap({})

(***************************************************************************)
(* C20. A successful Stream has started the source's producer; once the    *)
(* producer has taken a <-ctx.Done() case it sends nothing more on the     *)
(* channel Stream returned, and it goes on to close that channel.          *)
(***************************************************************************)
StreamSucceeded == runs > 0 /\ sink = "set" /\ ~StreamFails

C20_ProducerStopsOnCancel ==
    /\ [](StreamSucceeded => srcPc # "idle")
    /\ [][observed => sent'[0] = sent[0]]_vars
    /\ (observed ~> (srcPc = "done" /\ chans[0].closed))

(***************************************************************************)
(* C21. Every message of the timer source has empty metadata and the key   *)
(* "cron-" followed by the decimal of its own Timestamp.                   *)
(***************************************************************************)
C21_CronKeyIsTimestamp ==
    source.kind = "cron" =>
        \A k \in 1..Len(sent[0]) :
            /\ sent[0][k].Metadata = MakeMap({})
            /\ sent[0][k].Key = "cron-" \o ToString(sent[0][k].Timestamp)

(***************************************************************************)
(* C22. A poll of the HTTP source emits one message only if its GET        *)
(* returned 200 with a body that was read and parsed, and every such poll  *)
(* emits exactly one unless the context is cancelled before the send; a    *)
(* poll never queues an error and never closes the channel.                *)
(***************************************************************************)
Succeeded(r) == r.err = "none" /\ r.status = 200 /\ r.body = "ok"

Successes == Cardinality({k \in 1..Len(polls) : Succeeded(polls[k])})

Pending == IF srcPc = "send" THEN 1 ELSE 0

PollsAreSilent ==
    /\ srcPc = "send" => Succeeded(polls[Len(polls)])
    /\ \A k \in 1..Len(errChan) : errChan[k].kind = "sink write"
    /\ Len(errChan) <= Cardinality(failed)
    /\ chans[0].closed => observed

Accepted(r) == r.err = "none" /\ r.status \in 200..299 /\ r.body = "ok"

RECURSIVE AcceptedStatuses(_)
AcceptedStatuses(rs) ==
    IF rs = <<>> THEN <<>>
    ELSE IF Accepted(Head(rs)) THEN <<Head(rs).status>> \o AcceptedStatuses(Tail(rs))
    ELSE AcceptedStatuses(Tail(rs))

PolledMessages == sent[0] \o (IF srcPc = "send" THEN <<srcMsg>> ELSE <<>>)

C23_Every2xxPollEmits ==
    (source.kind = "http" /\ ~cancelled /\ srcPc # "poll") =>
        /\ Len(PolledMessages) = Len(AcceptedStatuses(polls))
        /\ \A k \in 1..Len(PolledMessages) :
              /\ PolledMessages[k].Key = URL
              /\ PolledMessages[k].Metadata =
                    MakeMap({<<"source", "http">>, <<"url", URL>>,
                             <<"status", ToString(AcceptedStatuses(polls)[k])>>})

(***************************************************************************)
(* C24. The HTTP producer polls once before it takes any tick and once for *)
(* every tick it takes: its polls number one more than its ticks, and a    *)
(* poll is under way only as the first step or right after a tick.         *)
(***************************************************************************)
C24_PollPerTick ==
    (source.kind = "http" /\ source.interval > 0) =>
        /\ srcPc \in {"idle", "ticker"} => (polls = <<>> /\ ticks = 0)
        /\ srcPc = "poll" => Len(polls) = ticks
        /\ srcPc \in {"send", "select", "done"} => Len(polls) = ticks + 1

C24_Witness ==
    /\ source.kind = "http"
    /\ ticks = MaxTicks
    /\ Len(polls) = MaxTicks + 1
    /\ srcPc = "done"
    /\ Len(sent[0]) = Len(polls)

(***************************************************************************)
(* C25. The channel adapter emits the values it has received from the feed *)
(* one envelope each, in feed order, with an empty key and an empty        *)
(* metadata map; without cancellation none is missing; it closes its       *)
(* channel only when the feed is closed and drained or on cancellation.    *)
(***************************************************************************)
\* the values the producer has taken from the feed
FeedTaken == SubSeq(fed, 1, Len(fed) - Len(feed.buf))

AdapterOutput == sent[0] \o (IF srcPc = "send" THEN <<srcMsg>> ELSE <<>>)

Delivered2xx(x) ==
    /\ x.marshal = "ok" /\ x.request = "ok" /\ x.transport = "ok"
    /\ x.status \in 200..299

C26_WriteNilIff2xx ==
    \A k \in 1..Len(httpSink.writes) :
        /\ httpSink.writes[k].ret = Nil <=> Delivered2xx(httpSink.writes[k].met)
        /\ httpSink.writes[k].ret # Nil =>
              httpSink.writes[k].ret.kind \in
                  {"marshal message", "create request", "send request",
                   "unexpected status code"}

C26_Witness ==
    /\ Len(httpSink.writes) = 2
    /\ httpSink.writes[1].met.status = 299 /\ httpSink.writes[1].ret = Nil
    /\ httpSink.writes[2].met.status = 300
    /\ httpSink.writes[2].ret = Err("unexpected status code", 300)

(***************************************************************************)
(* C27. Validate returns an error exactly when some task depends on itself *)
(* through one or more dependencies, or lists a dependency that names no   *)
(* task, whatever the orders of its two loops over the map.                *)
(***************************************************************************)
\* the names the tasks of S list as dependencies
Successors(g, S) == UNION {Range(g[n]) : n \in S \cap DOMAIN g}

RECURSIVE Reachable(_, _)
Reachable(g, S) ==
    LET T == S \cup Successors(g, S)
    IN  IF T = S THEN S ELSE Reachable(g, T)

Cyclic(g) == \E n \in DOMAIN g : n \in Reachable(g, Successors(g, {n}))

MissingDependency(g) == \E n \in DOMAIN g : \E d \in Range(g[n]) : d \notin DOMAIN g

C27_ValidateRejects ==
    graph.validated # NotCalled =>
        /\ graph.validated.err # Nil <=> (Cyclic(graph.tasks) \/ MissingDependency(graph.tasks))
        /\ graph.validated.err # Nil =>
              \/ graph.validated.err.kind = "cycle detected" /\ Cyclic(graph.tasks)
              \/ /\ graph.validated.err.kind = "non-existent task"
                 /\ MissingDependency(graph.tasks)

C27_Witness ==
    /\ DOMAIN graph.tasks = TaskNames
    /\ graph.tasks["a"] = <<"b", "c">>
    /\ graph.tasks["b"] = <<"c">>
    /\ graph.tasks["c"] = <<>>
    /\ graph.validated = [err |-> Nil]

(***************************************************************************)
(* C28. On a task set Validate accepts, TopologicalSort returns every task *)
(* name exactly once, each after all of its dependencies, whatever the     *)
(* orders of the loops over the map; on any other it returns an error and  *)
(* no order.                                                               *)
(***************************************************************************)
Index(order, n) == CHOOSE k \in 1..Len(order) : order[k] = n

C28_TopologicalOrder ==
    graph.sorted # NotCalled =>
        IF Cyclic(graph.tasks) \/ MissingDependency(graph.tasks)
        THEN graph.sorted.err # Nil /\ graph.sorted.order = <<>>
        ELSE /\ graph.sorted.err = Nil
             /\ Len(graph.sorted.order) = Cardinality(DOMAIN graph.tasks)
             /\ Range(graph.sorted.order) = DOMAIN graph.tasks
             /\ \A n \in DOMAIN graph.tasks : \A d \in Range(graph.tasks[n]) :
                   Index(graph.sorted.order, d) < Index(graph.sorted.order, n)

C28_Witness ==
    /\ DOMAIN graph.tasks = TaskNames
    /\ graph.tasks["a"] = <<"c">>
    /\ graph.tasks["b"] = <<"a", "c">>
    /\ graph.tasks["c"] = <<>>
    /\ graph.sorted = [order |-> <<"c", "a", "b">>, err |-> Nil]

(***************************************************************************)
(* C29. Build returns an error and no workflow when the entrypoint is      *)
(* empty, when no template was added, or when no template has the          *)
(* entrypoint's name; otherwise it returns a workflow with the builder's   *)
(* name, namespace and entrypoint and the templates in the order added.    *)
(***************************************************************************)
TemplateNamed(name) == \E k \in 1..Len(builder.templates) : builder.templates[k].Name = name

C29_BuildValidates ==
    builder.built # NotCalled =>
        IF builder.entrypoint = "" \/ builder.templates = <<>>
              \/ ~TemplateNamed(builder.entrypoint)
        THEN builder.built.err # Nil /\ builder.built.wf = NoWorkflow
        ELSE /\ builder.built.err = Nil
             /\ builder.built.wf.Name = builder.name
             /\ builder.built.wf.Namespace = builder.namespace
             /\ builder.built.wf.Entrypoint = builder.entrypoint
             /\ builder.built.wf.Templates = builder.templates

C29_Witness ==
    /\ builder.built # NotCalled
    /\ builder.built.err = Nil
    /\ builder.built.wf =
          [Name |-> "wf", Namespace |-> "argo", Entrypoint |-> "main",
           Templates |-> <<[Name |-> "step"], [Name |-> "main"]>>]

(***************************************************************************)
(* C30. For every value v of the declared type, the sink's default         *)
(* marshaler produces bytes, the source's default parser accepts them, and *)
(* the parsed value equals v.                                              *)
(***************************************************************************)
C30_JSONRoundTrip ==
    /\ codec.stage = "marshalled" => codec.out.err = Nil
    /\ codec.stage = "parsed" => (codec.in.err = Nil /\ codec.in.result = codec.value)

(***************************************************************************)
(* C31. The consumer never blocks indefinitely while forwarding a          *)
(* Sink.Write error: whenever it is at the select that forwards the error, *)
(* it eventually leaves it, whatever the number of failed writes.          *)
(***************************************************************************)
C31_ForwardNeverBlocks == (conPc = "forward") ~> (conPc # "forward")

(***************************************************************************)
(* C32. The forwarding task of every Map or Filter operator closes its     *)
(* outgoing channel once its incoming channel is closed or the context is  *)
(* cancelled, and not before; once it has closed its outgoing channel (it  *)
(* has seen the end of its input or the cancellation) it forwards nothing. *)
(***************************************************************************)
ClosesOnlyAfterEnd ==
    \A i \in 1..MaxOps : chans[i].closed => (cancelled \/ chans[i-1].closed)

ForwardsNothingClosed ==
    \A i \in 1..MaxOps : chans[i].closed => (sent'[i] = sent[i] /\ chans'[i].fault = "none")

C32_OperatorCloses ==
    /\ []ClosesOnlyAfterEnd
    /\ [][ForwardsNothingClosed]_vars
    /\ \A i \in 1..MaxOps :
          (opPc[i] # "idle" /\ (cancelled \/ chans[i-1].closed)) ~> chans[i].closed

(***************************************************************************)
(* C33. The timer source never discards a generated value because its      *)
(* channel is full: the values sent on the channel are the generated       *)
(* values 1, 2, ... in order; only the last generated value may be         *)
(* missing, while the producer holds it or after the producer gave it up   *)
(* because the context was cancelled.                                      *)
(***************************************************************************)
Generated == [k \in 1..ticks |-> k]

C33_NoTickDropped ==
    /\ emitted = SubSeq(Generated, 1, Len(emitted))
    /\ srcPc = "select" => Len(emitted) = ticks
    /\ srcPc = "send" => Len(emitted) = ticks - 1
    /\ srcPc = "done" => /\ Len(emitted) \in {ticks - 1, ticks}
                         /\ Len(emitted) < ticks => cancelled

\* every value of the burst got through although the producer had been blocked
C33_Witness ==
    /\ stalled
    /\ ~cancelled
    /\ Len(emitted) = MaxCronBurst

(***************************************************************************)
(* C34. At every point of every run, cancelled and failed runs included,   *)
(* the values passed so far to Sink.Write are a prefix of the operators,   *)
(* applied in configured order, of the values the source has emitted so    *)
(* far: nothing is duplicated or reordered, and nothing is written after   *)
(* an earlier envelope that passes the filters was dropped.                *)
(***************************************************************************)
IsPrefix(s, t) == Len(s) <= Len(t) /\ s = SubSeq(t, 1, Len(s))

C34_WrittenIsPrefix == IsPrefix(WrittenValues, Transform(operators, emitted))

\* a cancelled run with a filter and a map in which a write failed and an envelope that
\* passes the filter was dropped after an earlier one had been written
C34_Witness ==
    /\ Kinds = <<"filter", "map">>
    /\ cancelled /\ conPc = "done"
    /\ failed # {}
    /\ Len(written) = 1
    /\ Len(Transform(operators, emitted)) = 2

(***************************************************************************)
(* C35. Within one run Sink.Write is never invoked after Sink.Close has    *)
(* been invoked: once the driver has called Close the consumer has left    *)
(* its read loop and no further call of Write is made.                     *)
(***************************************************************************)
SinkClosed == \E k \in 1..Len(closes) : closes[k] = "sink"

C35_NoWriteAfterClose == [][SinkClosed => (conPc = "done" /\ written' = written)]_vars

\* the sink was closed after two writes, one of which failed
C35_Witness ==
    /\ SinkClosed
    /\ Len(written) = 2
    /\ failed # {}

(***************************************************************************)
(* C36. After Run has returned, with whatever outcome, no task started by  *)
(* that run invokes Sink.Write again.                                      *)
(***************************************************************************)
C36_NoWriteAfterReturn == [][returned => written' = written]_vars

(***************************************************************************)
(* C37. An error returned by a call of Run was produced by a Sink.Write    *)
(* that failed during that same call: when a Run starts, the error channel *)
(* of the pipeline holds no error left over from an earlier Run.           *)
(***************************************************************************)
C37_NoStaleError ==
    /\ drvPc = "config" => errChan = <<>>
    /\ result.kind = "sink write" => result.k \in failed

(***************************************************************************)
(* C38. When Stream is called again on the same source object (Run called  *)
(* twice on one pipeline), the channel of each call is closed once, by the *)
(* producer of that call: no producer sends on or closes a channel that    *)
(* the producer of another call has closed.                                *)
(***************************************************************************)
C38_StreamAgain == chans[0].fault = "none"

(***************************************************************************)
(* C39. On the completion path: if Sink.Close returns an error, Run        *)
(* returns that error and Source.Close is not invoked; if Sink.Close       *)
(* succeeds and Source.Close returns an error, Run returns that error;     *)
(* Run returns nil only when both calls of Close succeeded.                *)
(***************************************************************************)
C39_CloseErrors ==
    /\ result = Err("close sink", 0) <=> (returned /\ closes = <<"sink">>)
    /\ (returned /\ closes = <<"sink", "source">>) =>
          result = (IF SourceCloseFails THEN Err("close source", 0) ELSE Nil)
    /\ result = Nil => (closes = <<"sink", "source">> /\ ~SourceCloseFails)
    /\ drvPc = "closeSource" => closes = <<"sink">>

\* Sink.Close succeeded, Source.Close failed and Run returned that error
C39_Witness ==
    /\ returned
    /\ closes = <<"sink", "source">>
    /\ result = Err("close source", 0)

(***************************************************************************)
(* C40. After the context passed to WatchWorkflow is cancelled, the        *)
(* polling task terminates and closes the event channel, even when the     *)
(* caller has stopped receiving: it never stays blocked in a send.         *)
(***************************************************************************)
C40_WatchTerminates ==
    (watch.pc # "unused" /\ watch.ctx = "canceled") ~> (watch.pc = "done" /\ watch.closed)

=============================================================================
